---- MODULE Spec2Model ----
(***************************************************************************)
(* URL Insights API (txtr-api): the on-disk cache (app/cache.py), the      *)
(* token-bucket rate limiters (app/main.py _allow, app/utils.py            *)
(* RateLimiter) and the /v1/parse orchestration (app/main.py).             *)
(*                                                                         *)
(* Time is counted in ticks.  Strings are sequences of characters, of      *)
(* which the double quote and the backslash are the two that the JSON      *)
(* encoding of the cache file has to escape; every other character is an   *)
(* opaque token.                                                           *)
(***************************************************************************)
EXTENDS Integers, Sequences, FiniteSets, TLC

VARIABLES
    now,       \* time.time(), in ticks
    dir,       \* the cache directory CACHE_DIR: "absent", "present", "blocked"
    files,     \* the entry file of each key: its content
    ret,       \* the last call of cache.get / cache.set and what it returned
    bucket,    \* main._BUCKET: identity -> (tokens, ts)
    sbucket,   \* RateLimiter._buckets: identity -> {tokens, ts}
    log,       \* what the middleware answered to each request of identity "ip1"
    inflight,  \* per URL, how many /v1/parse requests are suspended in fetch_html
    last,      \* the latest event of the server: a request taken, or answered
    fresh,     \* per URL, when a fetched record was last answered with 200
    stored,    \* per URL, when such a record was last also written to the cache
    tmps,      \* the temporary file next to each entry file: its content
    wr,        \* the call of cache.set in progress, statement by statement
    fx,        \* the call of fetch_html in progress: attempts, GETs and sleeps
    pending,   \* per projection route and URL, the requests suspended in fetch_html
    chk,       \* concurrent rate-limit checks: the lock and each thread's position
    txt,       \* a text given to clean_citations_and_spaces, and what became of it
    wrs,       \* calls of cache.set running at once: each one's position and file handle
    get2,      \* the GET of the printable view inside fetch_html: what it was given and gave
    mrg        \* arguments given to merge_extraction, and what it returned

vars == <<now, dir, files, ret, bucket, sbucket, log, inflight, last, fresh, stored,
          tmps, wr, fx, pending, chk, txt, wrs, get2, mrg>>

cacheVars == <<dir, files, ret>>
rateVars  == <<bucket, sbucket, log>>
srvVars   == <<inflight, last, fresh, stored>>
stepVars  == <<tmps, wr, fx, pending, chk, txt, wrs, get2, mrg>>

(***************************************************************************)
(* Bounds of the model.                                                    *)
(***************************************************************************)
MaxTime == 3
\* Time-to-live values given to cache.set run from -1 to MaxTtl.
MaxTtl == 1

\* Ticks per refill period of the middleware's bucket: a tick is
\* 60 / (RATE_LIMIT_PER_MIN * Sub) seconds.
Sub == 2
\* Requests of one identity whose answers are kept in `log`.
MaxLog == 8

\* Requests that may be suspended in fetch_html at once.
MaxInflight == 1
\* The configured CACHE_TTL_SECONDS and DEFAULT_CACHE_TTL_SECONDS
\* (main.py:64-65, read from the environment), in ticks.
CACHE_TTL_SECONDS == 2
DEFAULT_CACHE_TTL_SECONDS == 1

Urls == {"u1", "u2"}

Ips == {"ip1", "ip2"}

\* The two characters JSON escapes inside a string literal.
DQ == "\""
BS == "\\"

(***************************************************************************)
(* json: string literals, as json.dump writes and json.load reads them.    *)
(***************************************************************************)
\* A text with a character that JSON escapes.
Special(s) == \E i \in 1 .. Len(s) : s[i] = DQ \/ s[i] = BS

\* Each character is escaped on its own, so a text without special
\* characters is its own escape, and any text is escaped by halves.
RECURSIVE json_escape(_)
json_escape(s) ==
    IF ~Special(s) THEN s
    ELSE IF Len(s) = 1 THEN (IF s[1] = DQ \/ s[1] = BS THEN <<BS, s[1]>> ELSE s)
    ELSE LET m == Len(s) \div 2
         IN  json_escape(SubSeq(s, 1, m)) \o json_escape(SubSeq(s, m + 1, Len(s)))

json_dumps_str(s) == <<DQ>> \o json_escape(s) \o <<DQ>>

\* The characters of a literal between its quotes, unescaped; <<"!">> marks a
\* text that is no string literal (json.load raises JSONDecodeError).
BadText == <<"!">>

\* The number of backslashes that stand immediately before position i.
Run(t, i) ==
    CHOOSE k \in 0 .. i - 1 :
        /\ \A j \in (i - k) .. (i - 1) : t[j] = BS
        /\ k = i - 1 \/ t[i - k - 1] # BS

\* Position i holds the character that an escaping backslash introduces.
Escaped(t, i) == Run(t, i) % 2 = 1

\* A text is read left to right, a backslash taking the next character with
\* it; the text is read by halves, cut where no escape pair is split.
RECURSIVE json_unescape(_)
json_unescape(t) ==
    IF ~Special(t) THEN t
    ELSE IF Len(t) = 1 THEN (IF t[1] = DQ \/ t[1] = BS THEN BadText ELSE t)
    ELSE IF Len(t) = 2 /\ t[1] = BS
    THEN (IF t[2] = DQ \/ t[2] = BS THEN <<t[2]>> ELSE BadText)
    ELSE LET h == Len(t) \div 2
             m == IF Escaped(t, h + 1) THEN h + 1 ELSE h
             l == json_unescape(SubSeq(t, 1, m))
             r == json_unescape(SubSeq(t, m + 1, Len(t)))
         IN  IF l = BadText \/ r = BadText THEN BadText ELSE l \o r

json_loads_str(t) ==
    IF Len(t) < 2 \/ t[1] # DQ \/ t[Len(t)] # DQ THEN BadText
    ELSE json_unescape(SubSeq(t, 2, Len(t) - 1))

(***************************************************************************)
(* The cache file of a key (app/cache.py).  A file is absent ("none"),     *)
(* present but not openable ("unreadable"), present with a content that    *)
(* json.load rejects or that is no JSON object ("garbage"), or a JSON      *)
(* object ("json") holding the keys `keys`.  The strings of a JSON object  *)
(* are kept as their literals; `ttlnum` tells whether int() accepts the    *)
(* value stored under "ttl".                                               *)
(***************************************************************************)
Keys == {"etag", "fetched_at", "ttl", "payload"}

\* A cleaned text of the given number of words, each word one letter.
TextOf(words) == [i \in 1 .. (IF words = 0 THEN 0 ELSE 2 * words - 1) |->
                      IF i % 2 = 1 THEN "w" ELSE " "]

\* main.py:192-211  the record core_parse builds, with `site` and
\* `fetched_at` for meta.site and meta.fetched_at.  url, title, text and
\* summary are strings; the language, the publication date, the image URL,
\* the keywords and the sentiment are values that JSON writes and reads
\* unchanged.
Record(url, title, words, summary, t) ==
    [url |-> url, title |-> title, text |-> TextOf(words), language |-> "en",
     published_at |-> "null", lead_image_url |-> "null", word_count |-> words,
     summary |-> summary, keywords |-> <<"k1", "k2">>,
     sentiment |-> [label |-> "neutral", score |-> 0], site |-> "site",
     fetched_at |-> t]

\* A payload is the record core_parse builds; the cache stores it as given.
PayloadText(p) ==
    [p EXCEPT !.url = json_dumps_str(@), !.title = json_dumps_str(@),
              !.text = json_dumps_str(@), !.summary = json_dumps_str(@)]

PayloadOfText(x) ==
    [x EXCEPT !.url = json_loads_str(@), !.title = json_loads_str(@),
              !.text = json_loads_str(@), !.summary = json_loads_str(@)]

\* No record: the body of a response that carries none, the payload of a
\* file or of a get() that has none.
NoPayload == [url |-> <<>>, title |-> <<>>, text |-> <<>>, summary |-> <<>>]

NoFile ==
    [kind |-> "none", keys |-> {}, etag |-> <<>>, fetched_at |-> 0, ttl |-> 0,
     ttlnum |-> TRUE, payload |-> PayloadText(NoPayload)]

\* json.load(f) succeeds and gives a dict.
json_load_ok(f) ==
    /\ f.kind = "json"
    /\ "etag" \in f.keys => json_loads_str(f.etag) # BadText
    /\ "payload" \in f.keys =>
           /\ json_loads_str(f.payload.url) # BadText
           /\ json_loads_str(f.payload.title) # BadText
           /\ json_loads_str(f.payload.text) # BadText
           /\ json_loads_str(f.payload.summary) # BadText

\* cache.py:22-23  os.makedirs(p, exist_ok=True): raises when the directory
\* is neither there nor creatable.
ensure_dir_raises(d) == d = "blocked"

ensure_dir(d) == IF d = "absent" THEN "present" ELSE d

\* cache.py:16-20  the entry file of a URL is named by the SHA-256 of the URL
\* alone; the hash is taken to be collision free, so the URL stands for it.
hash_key(url) == url

\* An expiry test that also drops an entry whose age equals its ttl.
expired_at_ttl(ttl, fetched_at, t) == ttl > 0 /\ (t - fetched_at) >= ttl

\* cache.py:35
expired(ttl, fetched_at, t) == ttl > 0 /\ (t - fetched_at) > ttl

NoEntry == [etag |-> <<>>, fetched_at |-> 0, ttl |-> 0, payload |-> NoPayload]

\* cache.py:25-44  get(base_dir, url) at time t: whether it raised, whether
\* it returned a CacheEntry, the entry, and the directory afterwards.
cache_get(d, fs, url, t) ==
    IF ensure_dir_raises(d)
    THEN [raised |-> TRUE, found |-> FALSE, entry |-> NoEntry, dir |-> d]
    ELSE LET f    == fs[hash_key(url)]
             none == [raised |-> FALSE, found |-> FALSE, entry |-> NoEntry,
                      dir |-> ensure_dir(d)]
         IN  IF f.kind = "none" THEN none
             ELSE IF f.kind = "unreadable" THEN none
             ELSE IF ~json_load_ok(f) THEN none
             ELSE IF "ttl" \in f.keys /\ ~f.ttlnum THEN none
             ELSE LET ttl        == IF "ttl" \in f.keys THEN f.ttl ELSE 0
                      fetched_at == IF "fetched_at" \in f.keys THEN f.fetched_at ELSE 0
                  IN  IF expired(ttl, fetched_at, t) THEN none
                      ELSE IF "etag" \notin f.keys \/ "payload" \notin f.keys THEN none
                      ELSE [raised |-> FALSE, found |-> TRUE,
                            entry |-> [etag |-> json_loads_str(f.etag),
                                       fetched_at |-> fetched_at,
                                       ttl |-> ttl,
                                       payload |-> PayloadOfText(f.payload)],
                            dir |-> ensure_dir(d)]

\* cache.py:49-54  the blob set() dumps.
blob(etag, payload, ttl, t) ==
    [kind |-> "json", keys |-> Keys, etag |-> json_dumps_str(etag),
     fetched_at |-> t, ttl |-> ttl, ttlnum |-> TRUE, payload |-> PayloadText(payload)]

\* A set() that writes the temporary file and never renames it into place.
cache_set_norename(d, fs, url, etag, payload, ttl, t, fault) ==
    IF ensure_dir_raises(d) THEN [raised |-> TRUE, dir |-> d, files |-> fs]
    ELSE [raised |-> fault, dir |-> ensure_dir(d), files |-> fs]

\* A set() that leaves an entry file that is already there as it is.
cache_set_keep_first(d, fs, url, etag, payload, ttl, t, fault) ==
    IF ensure_dir_raises(d) THEN [raised |-> TRUE, dir |-> d, files |-> fs]
    ELSE IF fault THEN [raised |-> TRUE, dir |-> ensure_dir(d), files |-> fs]
    ELSE [raised |-> FALSE, dir |-> ensure_dir(d),
          files |-> IF fs[hash_key(url)].kind # "none" THEN fs
                    ELSE [fs EXCEPT ![hash_key(url)] = blob(etag, payload, ttl, t)]]

\* A set() that, finding an entry file, puts the new payload into it and
\* leaves its etag, fetched_at and ttl as they are.
cache_set_payload_only(d, fs, url, etag, payload, ttl, t, fault) ==
    IF ensure_dir_raises(d) THEN [raised |-> TRUE, dir |-> d, files |-> fs]
    ELSE IF fault THEN [raised |-> TRUE, dir |-> ensure_dir(d), files |-> fs]
    ELSE [raised |-> FALSE, dir |-> ensure_dir(d),
          files |-> IF fs[hash_key(url)].kind = "json"
                    THEN [fs EXCEPT ![hash_key(url)].payload = PayloadText(payload)]
                    ELSE [fs EXCEPT ![hash_key(url)] = blob(etag, payload, ttl, t)]]

\* cache.py:46-58  set(base_dir, url, etag, payload, ttl) at time t; `fault`
\* is an OSError of open / write / os.replace (disk full, read-only file
\* system): the entry file is then left as it was.
cache_set(d, fs, url, etag, payload, ttl, t, fault) ==
    IF ensure_dir_raises(d) THEN [raised |-> TRUE, dir |-> d, files |-> fs]
    ELSE IF fault THEN [raised |-> TRUE, dir |-> ensure_dir(d), files |-> fs]
    ELSE [raised |-> FALSE, dir |-> ensure_dir(d),
          files |-> [fs EXCEPT ![hash_key(url)] = blob(etag, payload, ttl, t)]]

(***************************************************************************)
(* Entity tags (app/main.py).                                              *)
(***************************************************************************)
PARSER_VERSION == "v1"

\* hashlib.blake2b(...).hexdigest(), taken to be collision free on the
\* strings the model forms.
blake2b(s) ==
    CASE s = <<"u1", "|", "v1">> -> "d11"
      [] s = <<"u2", "|", "v1">> -> "d21"
      [] s = <<"u1", "|", "v0">> -> "d10"
      [] s = <<"u2", "|", "v0">> -> "d20"
      [] OTHER -> "d"

\* main.py:142-144, for a given parser version
etag_of(url, version) == <<"W", "/", DQ, blake2b(<<url, "|", version>>), DQ>>

etag_for(url) == etag_of(url, PARSER_VERSION)

(***************************************************************************)
(* Rate limiting.  Token amounts are counted in units of 1 / Token of a    *)
(* token, so that the refill of both limiters over whole ticks is a whole  *)
(* number: (RATE_LIMIT_PER_MIN / 60.0) * seconds is RATE_LIMIT_PER_MIN     *)
(* units per tick, and RATE * seconds / 60.0 is RATE units per tick.       *)
(* Rounding of the floating-point arithmetic is not modelled.              *)
(***************************************************************************)
RATE_LIMIT_PER_MIN == 10

Max(a, b) == IF a >= b THEN a ELSE b
Min(a, b) == IF a <= b THEN a ELSE b

\* main.py:117
BURST == Max(5, RATE_LIMIT_PER_MIN \div 2)

Token == RATE_LIMIT_PER_MIN * Sub

NoBucket == [has |-> FALSE, tokens |-> 0, ts |-> 0]

\* An admission test that asks for more than one whole token.
allow_more_than_one(b, ip, t) ==
    LET cur    == IF b[ip].has THEN b[ip] ELSE [has |-> TRUE, tokens |-> BURST * Token, ts |-> t]
        refill == RATE_LIMIT_PER_MIN * (t - cur.ts)
        tokens == Min(BURST * Token, cur.tokens + refill)
    IN  IF tokens > Token
        THEN [ok |-> TRUE, bucket |-> [b EXCEPT ![ip] = [has |-> TRUE, tokens |-> tokens - Token, ts |-> t]]]
        ELSE [ok |-> FALSE, bucket |-> [b EXCEPT ![ip] = [has |-> TRUE, tokens |-> tokens, ts |-> t]]]

\* A refill that is not clamped to the burst capacity.
allow_unclamped(b, ip, t) ==
    LET cur    == IF b[ip].has THEN b[ip] ELSE [has |-> TRUE, tokens |-> BURST * Token, ts |-> t]
        refill == RATE_LIMIT_PER_MIN * (t - cur.ts)
        tokens == cur.tokens + refill
    IN  IF tokens >= Token
        THEN [ok |-> TRUE, bucket |-> [b EXCEPT ![ip] = [has |-> TRUE, tokens |-> tokens - Token, ts |-> t]]]
        ELSE [ok |-> FALSE, bucket |-> [b EXCEPT ![ip] = [has |-> TRUE, tokens |-> tokens, ts |-> t]]]

\* A rejected check that stamps the bucket with the time of the check and
\* leaves its tokens as they were before the refill.
allow_reject_drops_refill(b, ip, t) ==
    LET cur    == IF b[ip].has THEN b[ip] ELSE [has |-> TRUE, tokens |-> BURST * Token, ts |-> t]
        refill == RATE_LIMIT_PER_MIN * (t - cur.ts)
        tokens == Min(BURST * Token, cur.tokens + refill)
    IN  IF tokens >= Token
        THEN [ok |-> TRUE, bucket |-> [b EXCEPT ![ip] = [has |-> TRUE, tokens |-> tokens - Token, ts |-> t]]]
        ELSE [ok |-> FALSE, bucket |-> [b EXCEPT ![ip] = [has |-> TRUE, tokens |-> cur.tokens, ts |-> t]]]

\* main.py:120-130  _allow(ip) at time t on the table b: the verdict and the
\* table afterwards.
allow(b, ip, t) ==
    LET cur    == IF b[ip].has THEN b[ip] ELSE [has |-> TRUE, tokens |-> BURST * Token, ts |-> t]
        refill == RATE_LIMIT_PER_MIN * (t - cur.ts)
        tokens == Min(BURST * Token, cur.tokens + refill)
    IN  IF tokens >= Token
        THEN [ok |-> TRUE, bucket |-> [b EXCEPT ![ip] = [has |-> TRUE, tokens |-> tokens - Token, ts |-> t]]]
        ELSE [ok |-> FALSE, bucket |-> [b EXCEPT ![ip] = [has |-> TRUE, tokens |-> tokens, ts |-> t]]]

\* utils.py:137-138
RATE == 60
STRICT_BURST == 30

\* utils.py:140-161  RateLimiter.check_rate_limit(ip, limit_per_min) at time
\* t, under the lock: whether it raised RateLimitError, and the table
\* afterwards.  limit_per_min is not used by the code.
check_rate_limit(b, ip, limit_per_min, t) ==
    LET cur    == IF b[ip].has THEN b[ip] ELSE [has |-> TRUE, tokens |-> STRICT_BURST * Token, ts |-> t]
        tokens == Min(STRICT_BURST * Token, cur.tokens + RATE * (t - cur.ts))
    IN  IF tokens < Token
        THEN [raised |-> TRUE, bucket |-> [b EXCEPT ![ip] = [has |-> TRUE, tokens |-> tokens, ts |-> t]]]
        ELSE [raised |-> FALSE, bucket |-> [b EXCEPT ![ip] = [has |-> TRUE, tokens |-> tokens - Token, ts |-> t]]]

\* main.py:137  the answer of the middleware to a rejected request
RateLimited == [status |-> 429, type |-> "rate_limited", errstatus |-> 429]

(***************************************************************************)
(* POST /v1/parse (app/main.py).  The handler runs without suspension up   *)
(* to the fetch (parse_start) and, once fetch_html has returned or raised, *)
(* to its response (parse_finish).  An outcome tells the response, the     *)
(* cache directory and files afterwards, and how often the cache was read  *)
(* and written.                                                            *)
(***************************************************************************)
NoHeader == <<>>

Outcome(kind, status, errstatus, body, etag, maxage, d, fs, reads, writes, wrote) ==
    [kind |-> kind, status |-> status, errstatus |-> errstatus, body |-> body,
     etag |-> etag, maxage |-> maxage, dir |-> d, files |-> fs,
     reads |-> reads, writes |-> writes, wrote |-> wrote]

\* main.py:397-399  an exception no other handler takes
InternalError(d, fs, reads, writes) ==
    Outcome("resp", 500, 500, NoPayload, NoHeader, -1, d, fs, reads, writes, FALSE)

\* A conditional request answered 304 on the header alone.
not_modified_on_header(inm, etag, c) == inm = etag

\* main.py:303-306
not_modified(inm, etag, c) == inm = etag /\ c.found /\ c.entry.etag = etag

\* A hit test with the comparison of the tags inverted.
cache_hit_other_tag(c, etag) == c.found /\ c.entry.etag # etag

\* main.py:309
cache_hit(c, etag) == c.found /\ c.entry.etag = etag

\* A parse() whose cache lookup removes the entry file it does not answer
\* from (expired, or of another tag) before the fetch.
parse_start_evicts(d, fs, url, inm, t) ==
    LET etag  == etag_for(url)
        c1    == cache_get(d, fs, url, t)
        cond  == inm = etag
        d2    == IF cond THEN c1.dir ELSE d
        c2    == cache_get(d2, fs, url, t)
        reads == IF cond THEN 2 ELSE 1
    IN  IF cond /\ c1.raised THEN InternalError(c1.dir, fs, 1, 0)
        ELSE IF cond /\ not_modified(inm, etag, c1)
        THEN Outcome("resp", 304, 0, NoPayload, NoHeader, -1, c1.dir, fs, 1, 0, FALSE)
        ELSE IF c2.raised THEN InternalError(c2.dir, fs, reads, 0)
        ELSE IF cache_hit(c2, etag)
        THEN Outcome("resp", 200, 0, c2.entry.payload, c2.entry.etag,
                     DEFAULT_CACHE_TTL_SECONDS, c2.dir, fs, reads, 0, FALSE)
        ELSE Outcome("fetch", 0, 0, NoPayload, NoHeader, -1, c2.dir,
                     [fs EXCEPT ![hash_key(url)] = NoFile], reads, 0, FALSE)

\* main.py:298-312  parse(), from its start to the call of core_parse
parse_start(d, fs, url, inm, t) ==
    LET etag  == etag_for(url)
        c1    == cache_get(d, fs, url, t)
        cond  == inm = etag
        d2    == IF cond THEN c1.dir ELSE d
        c2    == cache_get(d2, fs, url, t)
        reads == IF cond THEN 2 ELSE 1
    IN  IF cond /\ c1.raised THEN InternalError(c1.dir, fs, 1, 0)
        ELSE IF cond /\ not_modified(inm, etag, c1)
        THEN Outcome("resp", 304, 0, NoPayload, NoHeader, -1, c1.dir, fs, 1, 0, FALSE)
        ELSE IF c2.raised THEN InternalError(c2.dir, fs, reads, 0)
        ELSE IF cache_hit(c2, etag)
        THEN Outcome("resp", 200, 0, c2.entry.payload, c2.entry.etag,
                     DEFAULT_CACHE_TTL_SECONDS, c2.dir, fs, reads, 0, FALSE)
        ELSE Outcome("fetch", 0, 0, NoPayload, NoHeader, -1, c2.dir, fs, reads, 0, FALSE)

MIN_WORDS == 10

\* A text test that rejects the empty text only.
too_little_text_empty_only(words) == words = 0

\* main.py:176  `not text or word_count(text) < 10`, on the word count of the
\* cleaned text (an empty text has no words)
too_little_text(words) == words < MIN_WORDS

\* What fetch_html and the extraction give for a URL at some moment: the fetch
\* returns ("ok"), or raises httpx.TimeoutException ("timeout") or another
\* httpx.HTTPError ("error"); `html` is whether the content type holds
\* text/html, `words` the word count of the cleaned, merged text.
Page(result, html, words, title) ==
    [result |-> result, html |-> html, words |-> words, title |-> title,
     summary |-> IF result = "ok" /\ html THEN <<"S", DQ>> ELSE <<>>]

\* A parse_finish without the handler of httpx.TimeoutException: a timeout is
\* answered as any other exception.
parse_finish_no_timeout_handler(d, fs, url, page, t, fault) ==
    IF page.result # "ok" THEN InternalError(d, fs, 0, 0)
    ELSE IF ~page.html
    THEN Outcome("resp", 415, 0, NoPayload, NoHeader, -1, d, fs, 0, 0, FALSE)
    ELSE IF too_little_text(page.words)
    THEN Outcome("resp", 422, 0, NoPayload, NoHeader, -1, d, fs, 0, 0, FALSE)
    ELSE LET etag    == etag_for(url)
             payload == Record(<<url>>, page.title, page.words, page.summary, t)
             w       == cache_set(d, fs, url, etag, payload, CACHE_TTL_SECONDS, t, fault)
         IN  Outcome("resp", 200, 0, payload, etag, DEFAULT_CACHE_TTL_SECONDS,
                     w.dir, w.files, 0, 1, ~w.raised)

\* A parse_finish that does not look at the content type.
parse_finish_any_content_type(d, fs, url, page, t, fault) ==
    IF page.result = "timeout"
    THEN Outcome("resp", 504, 504, NoPayload, NoHeader, -1, d, fs, 0, 0, FALSE)
    ELSE IF page.result # "ok" THEN InternalError(d, fs, 0, 0)
    ELSE IF too_little_text(page.words)
    THEN Outcome("resp", 422, 0, NoPayload, NoHeader, -1, d, fs, 0, 0, FALSE)
    ELSE LET etag    == etag_for(url)
             payload == Record(<<url>>, page.title, page.words, page.summary, t)
             w       == cache_set(d, fs, url, etag, payload, CACHE_TTL_SECONDS, t, fault)
         IN  Outcome("resp", 200, 0, payload, etag, DEFAULT_CACHE_TTL_SECONDS,
                     w.dir, w.files, 0, 1, ~w.raised)

\* A parse_finish that stores the record before the text is tested.
parse_finish_stores_short(d, fs, url, page, t, fault) ==
    IF page.result = "timeout"
    THEN Outcome("resp", 504, 504, NoPayload, NoHeader, -1, d, fs, 0, 0, FALSE)
    ELSE IF page.result # "ok" THEN InternalError(d, fs, 0, 0)
    ELSE IF ~page.html
    THEN Outcome("resp", 415, 0, NoPayload, NoHeader, -1, d, fs, 0, 0, FALSE)
    ELSE LET etag    == etag_for(url)
             payload == Record(<<url>>, page.title, page.words, page.summary, t)
             w       == cache_set(d, fs, url, etag, payload, CACHE_TTL_SECONDS, t, fault)
         IN  IF too_little_text(page.words)
             THEN Outcome("resp", 422, 0, NoPayload, NoHeader, -1, w.dir, w.files,
                          0, 1, FALSE)
             ELSE Outcome("resp", 200, 0, payload, etag, DEFAULT_CACHE_TTL_SECONDS,
                          w.dir, w.files, 0, 1, ~w.raised)

\* main.py:160-213 and 314-324  core_parse() after fetch_html, and the rest of
\* parse(); `fault` is an OSError inside cache_set.
parse_finish(d, fs, url, page, t, fault) ==
    IF page.result = "timeout"
    THEN Outcome("resp", 504, 504, NoPayload, NoHeader, -1, d, fs, 0, 0, FALSE)
    ELSE IF page.result # "ok" THEN InternalError(d, fs, 0, 0)
    ELSE IF ~page.html
    THEN Outcome("resp", 415, 0, NoPayload, NoHeader, -1, d, fs, 0, 0, FALSE)
    ELSE IF too_little_text(page.words)
    THEN Outcome("resp", 422, 0, NoPayload, NoHeader, -1, d, fs, 0, 0, FALSE)
    ELSE LET etag    == etag_for(url)
             payload == Record(<<url>>, page.title, page.words, page.summary, t)
             w       == cache_set(d, fs, url, etag, payload, CACHE_TTL_SECONDS, t, fault)
         IN  Outcome("resp", 200, 0, payload, etag, DEFAULT_CACHE_TTL_SECONDS,
                     w.dir, w.files, 0, 1, ~w.raised)

\* A middleware that lets the handler run and tests the rate afterwards.
ratelimit_mw_after(allowed, handled, d, fs) ==
    IF allowed THEN handled
    ELSE [handled EXCEPT !.kind = "resp", !.status = RateLimited.status,
                         !.errstatus = RateLimited.errstatus, !.body = NoPayload,
                         !.etag = NoHeader, !.maxage = -1]

\* main.py:133-138  ratelimit_mw: the handler is called only for an admitted
\* request; d and fs are the cache as the request found it.
ratelimit_mw(allowed, handled, d, fs) ==
    IF allowed THEN handled
    ELSE Outcome("resp", RateLimited.status, RateLimited.errstatus, NoPayload,
                 NoHeader, -1, d, fs, 0, 0, FALSE)

Idle == [u \in Urls |-> 0]

\* The number of requests suspended in fetch_html.
Suspended(f) == f["u1"] + f["u2"]

NoEvent ==
    [route |-> "none", phase |-> "none", url |-> "u1", inm |-> NoHeader, ip |-> "ip1",
     status |-> 0, errstatus |-> 0, body |-> NoPayload, etag |-> NoHeader,
     maxage |-> -1, reads |-> 0, writes |-> 0, fetches |-> 0, words |-> -1]

\* The projection routes (main.py:327-378).
ProjRoutes == {"metadata", "summary", "preview"}

\* No call of cache.set in progress.
NoWriter == [pc |-> "idle"]

\* The threads that call a rate limiter at once.
Threads == {"t1", "t2", "t3"}

\* No rate-limit check in progress; `had` is, in whole tokens, what the
\* buckets of "ip1" held when the threads were started.
NoChecks ==
    [lock |-> "free", th |-> [t \in Threads |-> [pc |-> "idle"]],
     tasks |-> [t \in Threads |-> "idle"], had |-> [lenient |-> 0, strict |-> 0]]

\* No text given to the cleaning step.
NoText == [pc |-> "none"]

\* No two calls of cache.set running at once.
NoWriters == [pc |-> "none"]

\* No GET of a printable view.
NoSecond == [pc |-> "none"]

\* No call of merge_extraction.
NoMerge == [pc |-> "none"]

\* No call of fetch_html in progress.
NoFetch ==
    [pc |-> "idle", url |-> "u1", attempt |-> 0, gets |-> 0, extra |-> 0,
     sleeps |-> <<>>, errors |-> <<>>, result |-> "none", html |-> FALSE]

InitIdle ==
    /\ inflight = Idle
    /\ last = NoEvent
    /\ fresh = [u \in Urls |-> -1]
    /\ stored = [u \in Urls |-> -1]
    /\ tmps = [u \in Urls |-> NoFile]
    /\ wr = NoWriter
    /\ fx = NoFetch
    /\ pending = [r \in ProjRoutes |-> Idle]
    /\ chk = NoChecks
    /\ txt = NoText
    /\ wrs = NoWriters
    /\ get2 = NoSecond
    /\ mrg = NoMerge

(***************************************************************************)
(* The cache on its own: cache.get and cache.set called at any time with   *)
(* any arguments, on a directory and entry files in any state.             *)
(***************************************************************************)
SomePayloads ==
    { Record(<<"u1">>, <<"T">>, 3, <<"S">>, 0),
      Record(<<"u1">>, <<DQ, "T", BS>>, 2, <<BS, "S">>, 1) }

\* The (etag, payload) pairs given to cache.set.
SomePuts ==
    { <<etag_for("u1"), CHOOSE q \in SomePayloads : q.word_count = 3>>,
      <<etag_of("u1", "v0") \o <<BS>>, CHOOSE q \in SomePayloads : q.word_count = 2>> }

TtlArgs == (-1) .. MaxTtl

\* Entry files that may be found on disk when the process starts: written by
\* an earlier run, truncated, edited or made unreadable since.
FullFile(etag, ttl) ==
    [kind |-> "json", keys |-> Keys, etag |-> json_dumps_str(etag),
     fetched_at |-> 0, ttl |-> ttl, ttlnum |-> TRUE,
     payload |-> PayloadText(CHOOSE q \in SomePayloads : q.word_count = 3)]

FoundFiles ==
    { NoFile,
      [NoFile EXCEPT !.kind = "unreadable"],
      [NoFile EXCEPT !.kind = "garbage"] }
    \cup { FullFile(etag_for("u1"), t) : t \in 0 .. MaxTtl }
    \cup { [FullFile(etag_for("u1"), 1) EXCEPT !.keys = Keys \ {k}] : k \in Keys }
    \cup { [FullFile(etag_for("u1"), 1) EXCEPT !.ttlnum = FALSE],
           [FullFile(etag_for("u1"), 1) EXCEPT !.etag = <<DQ, DQ, DQ>>] }

NoCall ==
    [op |-> "none", url |-> "u1", at |-> 0, raised |-> FALSE, found |-> FALSE,
     etag |-> <<>>, fetched_at |-> 0, ttl |-> 0, payload |-> NoPayload]

InitCache ==
    /\ now = 0
    /\ dir \in {"absent", "present", "blocked"}
    /\ files \in [Urls -> FoundFiles]
    /\ dir # "present" => files = [u \in Urls |-> NoFile]
    /\ files["u2"] = NoFile
    /\ ret = NoCall
    /\ bucket = [ip \in Ips |-> NoBucket]
    /\ sbucket = [ip \in Ips |-> NoBucket]
    /\ log = <<>>
    /\ InitIdle

\* Time passes, up to the horizon h of the specification.
Tick(h) ==
    /\ now < h
    /\ now' = now + 1
    /\ UNCHANGED <<cacheVars, rateVars, srvVars, stepVars>>

\* A call of cache.get(CACHE_DIR, url).
Get(url) ==
    \E r \in {cache_get(dir, files, url, now)} :
        /\ dir' = r.dir
        /\ ret' = [op |-> "get", url |-> url, at |-> now, raised |-> r.raised,
                   found |-> r.found, etag |-> r.entry.etag,
                   fetched_at |-> r.entry.fetched_at, ttl |-> r.entry.ttl,
                   payload |-> r.entry.payload]
        /\ UNCHANGED <<now, files, rateVars, srvVars, stepVars>>

\* A call of cache.set(CACHE_DIR, url, etag, payload, ttl).
Set(url, etag, payload, ttl, fault) ==
    \E r \in {cache_set(dir, files, url, etag, payload, ttl, now, fault)} :
        /\ dir' = r.dir
        /\ files' = r.files
        /\ ret' = [op |-> "set", url |-> url, at |-> now, raised |-> r.raised,
                   found |-> FALSE, etag |-> etag, fetched_at |-> now, ttl |-> ttl,
                   payload |-> payload]
        /\ UNCHANGED <<now, rateVars, srvVars, stepVars>>

NextCache ==
    \/ Tick(MaxTime)
    \/ \E url \in Urls : Get(url)
    \/ \E url \in Urls, put \in SomePuts, ttl \in TtlArgs, fault \in BOOLEAN :
           Set(url, put[1], put[2], ttl, fault)

SpecCache == InitCache /\ [][NextCache]_vars

\* The entry file holds a complete, well-formed entry.
HoldsEntry(f) ==
    /\ f.kind = "json"
    /\ f.keys = Keys
    /\ f.ttlnum
    /\ json_loads_str(f.etag) # BadText
    /\ json_loads_str(f.payload.url) # BadText
    /\ json_loads_str(f.payload.title) # BadText
    /\ json_loads_str(f.payload.text) # BadText
    /\ json_loads_str(f.payload.summary) # BadText

\* C8: cache.get reports a present, well-formed entry absent exactly when its
\* ttl is positive and its age (now - fetched_at) is strictly greater than the
\* ttl: a ttl of 0 (or less) never expires, an age equal to the ttl is a hit.
C8_ExpiryExact ==
    (ret.op = "get" /\ ~ret.raised /\ HoldsEntry(files[hash_key(ret.url)])) =>
        LET f   == files[hash_key(ret.url)]
            age == ret.at - f.fetched_at
        IN  /\ ~ret.found <=> (f.ttl > 0 /\ age > f.ttl)
            /\ f.ttl = 0 => ret.found
            /\ age = f.ttl => ret.found

\* C8's case: a get that found the entry file present and complete, and
\* reported it absent because it was older than its ttl.
C8_Witness ==
    /\ ret.op = "get" /\ ~ret.raised /\ ~ret.found
    /\ HoldsEntry(files[hash_key(ret.url)])
    /\ ret.at - files[hash_key(ret.url)].fetched_at > files[hash_key(ret.url)].ttl

\* C9: a set(url, etag, payload, ttl) that returned, followed by get(url) with
\* no other cache call in between and the ttl not yet expired, returns an
\* entry with that etag and that payload, whatever the file held before.
C9_RoundTrip ==
    [][ ( /\ ret.op = "set" /\ ~ret.raised
          /\ ret'.op = "get" /\ ret'.url = ret.url
          /\ (ret.ttl <= 0 \/ ret'.at - ret.at <= ret.ttl) )
        => ( /\ ~ret'.raised /\ ret'.found
             /\ ret'.etag = ret.etag
             /\ ret'.payload = ret.payload
             /\ ret'.ttl = ret.ttl ) ]_vars

\* C9's case: a get that returns, at the tick it was written, an entry whose
\* etag and title hold the characters JSON escapes.
C9_Witness ==
    /\ ret.op = "get" /\ ret.found
    /\ ret.fetched_at = ret.at /\ ret.at > 0
    /\ ret.etag = etag_of("u1", "v0") \o <<BS>>
    /\ ret.payload.title = <<DQ, "T", BS>>

\* C10 (as claimed): whatever the state of the cache on disk, cache.get never
\* raises.
C10_GetNeverRaises == ~(ret.op = "get" /\ ret.raised)

\* C10, second half (as claimed): a get of an entry file that is missing,
\* unreadable, malformed or lacks one of its four fields returns absent.
C10_IncompleteIsAbsent ==
    (ret.op = "get" /\ ~ret.raised /\ ~HoldsEntry(files[hash_key(ret.url)])) => ~ret.found

(***************************************************************************)
(* cache.set statement by statement, with calls of cache.get by other      *)
(* threads or processes in between.  One set is in progress at a time.     *)
(***************************************************************************)
\* A file opened for writing and not yet closed: empty, or a proper prefix
\* of the JSON text, which json.load rejects.
Partial == [NoFile EXCEPT !.kind = "partial"]

\* A set() that opens and writes the entry file itself.
set_step_inplace(pc, fs, ts, key, b) ==
    CASE pc = "open"    -> [pc |-> "dump", files |-> [fs EXCEPT ![key] = Partial], tmps |-> ts]
      [] pc = "dump"    -> [pc |-> "replace", files |-> [fs EXCEPT ![key] = b], tmps |-> ts]
      [] OTHER          -> [pc |-> "idle", files |-> fs, tmps |-> ts]

\* cache.py:55-58  the next statement of set() on the entry file fs[key] and
\* its temporary file ts[key]: open(tmp, "w"), json.dump and close,
\* os.replace(tmp, fp).
set_step(pc, fs, ts, key, b) ==
    CASE pc = "open"    -> [pc |-> "dump", files |-> fs, tmps |-> [ts EXCEPT ![key] = Partial]]
      [] pc = "dump"    -> [pc |-> "replace", files |-> fs, tmps |-> [ts EXCEPT ![key] = b]]
      [] OTHER          -> [pc |-> "idle", files |-> [fs EXCEPT ![key] = ts[key]],
                            tmps |-> [ts EXCEPT ![key] = NoFile]]

\* cache.py:46-54  set() is called: the directory is made and the blob built.
Begin(url, etag, payload, ttl) ==
    /\ wr.pc = "idle"
    /\ ~ensure_dir_raises(dir)
    /\ dir' = ensure_dir(dir)
    /\ wr' = [pc |-> "open", url |-> url, blob |-> blob(etag, payload, ttl, now),
              old |-> files[hash_key(url)]]
    /\ UNCHANGED <<now, files, ret, rateVars, srvVars, tmps, fx, pending, chk, txt, wrs, get2, mrg>>

\* cache.py:55-58  the set() in progress executes its next statement.
SetStep ==
    /\ wr.pc # "idle"
    /\ \E r \in {set_step(wr.pc, files, tmps, hash_key(wr.url), wr.blob)} :
           /\ files' = r.files
           /\ tmps' = r.tmps
           /\ wr' = IF r.pc = "idle" THEN NoWriter ELSE [wr EXCEPT !.pc = r.pc]
    /\ UNCHANGED <<now, dir, ret, rateVars, srvVars, fx, pending, chk, txt, wrs, get2, mrg>>

\* cache.py:56-57  the write raises OSError (disk full): set() ends, and the
\* temporary file stays as far as it was written.
SetFails ==
    /\ wr.pc = "dump"
    /\ wr' = NoWriter
    /\ UNCHANGED <<now, cacheVars, rateVars, srvVars, tmps, fx, pending, chk, txt, wrs, get2, mrg>>

\* The entry of "u1" when the set is called: none, one that is no JSON, or a
\* complete one.
InitAtomic ==
    /\ InitCache
    /\ dir # "blocked"
    /\ files["u1"] \in {NoFile, [NoFile EXCEPT !.kind = "garbage"],
                        FullFile(etag_for("u1"), MaxTtl)}

NextAtomic ==
    \/ Tick(MaxTime)
    \/ \E url \in {"u1"} : Get(url)
    \/ \E url \in {"u1"}, put \in SomePuts, ttl \in TtlArgs : Begin(url, put[1], put[2], ttl)
    \/ SetStep
    \/ SetFails

SpecAtomic == InitAtomic /\ [][NextAtomic]_vars

\* A step that is a call of cache.get (nothing but the directory and the
\* record of the call changes).
GetStep == ret'.op = "get" /\ wr' = wr /\ files' = files /\ now' = now

\* The call recorded in r returned what get gives on the entry file f.
Returned(r, f) ==
    LET c == cache_get(dir, [files EXCEPT ![hash_key(r.url)] = f], r.url, now)
    IN  /\ r.found = c.found
        /\ r.found => /\ r.etag = c.entry.etag
                      /\ r.fetched_at = c.entry.fetched_at
                      /\ r.ttl = c.entry.ttl
                      /\ r.payload = c.entry.payload

\* C11: a get that runs while a set for the same URL is in progress returns
\* what it would return on the entry file as it was before the set (absent,
\* or the previous complete entry) or what it returns on the new complete
\* entry; the file it reads is never a partly written one.
C11_AtomicSet ==
    [][ (GetStep /\ wr.pc # "idle" /\ ret'.url = wr.url) =>
            /\ files[hash_key(wr.url)].kind # "partial"
            /\ Returned(ret', wr.old) \/ Returned(ret', wr.blob) ]_vars

\* C11's case: a get returned the previous entry while the new one was
\* complete in the temporary file and not yet renamed into place.
C11_Witness ==
    /\ wr.pc = "replace" /\ ret.op = "get" /\ ret.url = wr.url /\ ret.found
    /\ tmps[hash_key(wr.url)] = wr.blob
    /\ files[hash_key(wr.url)] = wr.old
    /\ wr.old # wr.blob
    /\ ret.fetched_at = wr.old.fetched_at /\ ret.at >= wr.blob.fetched_at

(***************************************************************************)
(* The two limiters on their own: checks by any identity at any time.      *)
(***************************************************************************)
InitRate ==
    /\ now = 0
    /\ dir = "absent"
    /\ files = [u \in Urls |-> NoFile]
    /\ ret = NoCall
    /\ bucket = [ip \in Ips |-> NoBucket]
    /\ sbucket = [ip \in Ips |-> NoBucket]
    /\ log = <<>>
    /\ InitIdle

\* A call of main._allow(ip).
Allow(ip) ==
    /\ bucket' = allow(bucket, ip, now).bucket
    /\ UNCHANGED <<now, cacheVars, sbucket, log, srvVars, stepVars>>

\* A call of RateLimiter.check_rate_limit(ip, limit_per_min).
CheckRateLimit(ip, limit_per_min) ==
    /\ sbucket' = check_rate_limit(sbucket, ip, limit_per_min, now).bucket
    /\ UNCHANGED <<now, cacheVars, bucket, log, srvVars, stepVars>>

\* Long enough for an idle bucket to be refilled past its capacity.
BucketHorizon == 2 * Sub + 1

NextBucket ==
    \/ Tick(BucketHorizon)
    \/ \E ip \in Ips : Allow(ip)
    \/ \E ip \in {"ip1"}, limit_per_min \in {RATE_LIMIT_PER_MIN, RATE} :
           CheckRateLimit(ip, limit_per_min)

SpecBucket == InitRate /\ [][NextBucket]_vars

\* main.py:133-138  a request of identity ip through ratelimit_mw alone: the
\* answers to "ip1" are kept, 0 standing for a request passed on.
Knock(ip) ==
    LET a == allow(bucket, ip, now)
    IN  /\ ip = "ip1" => Len(log) < MaxLog
        /\ bucket' = a.bucket
        /\ log' = IF ip # "ip1" THEN log
                  ELSE Append(log, [at |-> now, ok |-> a.ok,
                                    status |-> IF a.ok THEN 0 ELSE RateLimited.status,
                                    errstatus |-> IF a.ok THEN 0 ELSE RateLimited.errstatus])
        /\ UNCHANGED <<now, cacheVars, sbucket, srvVars, stepVars>>

NextBurst ==
    \/ Tick(MaxTime)
    \/ \E ip \in Ips : Knock(ip)

SpecBurst == InitRate /\ [][NextBurst]_vars

\* C5: of B + 1 requests of a fresh identity at one instant, the first B are
\* admitted and the (B+1)th is answered 429 with error.status = 429; if the
\* next request comes 60 / R seconds (Sub ticks) later it is admitted, and one
\* more at that same instant is rejected.
C5_BurstThenOne ==
    (Len(log) >= BURST + 1 /\ log[BURST + 1].at = log[1].at) =>
        /\ \A i \in 1 .. BURST : log[i].ok
        /\ ~log[BURST + 1].ok
        /\ log[BURST + 1].status = 429 /\ log[BURST + 1].errstatus = 429
        /\ (Len(log) >= BURST + 2 /\ log[BURST + 2].at = log[1].at + Sub) =>
               /\ log[BURST + 2].ok
               /\ (Len(log) >= BURST + 3 /\ log[BURST + 3].at = log[BURST + 2].at) =>
                      /\ ~log[BURST + 3].ok
                      /\ log[BURST + 3].status = 429

\* C5's case: the whole scenario has been played.
C5_Witness ==
    /\ Len(log) >= BURST + 3
    /\ log[BURST + 1].at = log[1].at
    /\ log[BURST + 2].at = log[1].at + Sub
    /\ log[BURST + 3].at = log[BURST + 2].at
    /\ log[BURST + 2].ok /\ ~log[BURST + 3].ok

\* C6: every bucket of either limiter holds at least 0 tokens and at most its
\* burst capacity, whatever checks were made at non-decreasing times.
C6_TokensInRange ==
    \A ip \in Ips :
        /\ bucket[ip].has => (0 <= bucket[ip].tokens /\ bucket[ip].tokens <= BURST * Token)
        /\ sbucket[ip].has =>
               (0 <= sbucket[ip].tokens /\ sbucket[ip].tokens <= STRICT_BURST * Token)

\* C6's case: the middleware's bucket of one identity has been drawn down to
\* nothing, that of another was admitted after an idle time that refills more
\* than the capacity, and the strict limiter's bucket has been drawn on.
C6_Witness ==
    /\ bucket["ip1"].has /\ bucket["ip1"].tokens = 0
    /\ bucket["ip2"].has /\ bucket["ip2"].tokens = (BURST - 1) * Token
    /\ bucket["ip2"].ts = BucketHorizon
    /\ sbucket["ip1"].has /\ sbucket["ip1"].tokens < (STRICT_BURST - 1) * Token
    /\ sbucket["ip1"].ts > 0

(***************************************************************************)
(* The server: /v1/parse requests of any client at any time, each passing  *)
(* the rate-limit middleware and then the handler.                         *)
(***************************************************************************)
\* Entry files found when the server starts: none, one that is no JSON, or
\* one written under an earlier parser version.
StartFiles ==
    { NoFile,
      [NoFile EXCEPT !.kind = "garbage"],
      blob(etag_of("u1", "v0"),
           Record(<<"u1">>, <<"T">>, 3, <<"S">>, 0),
           0, 0) }

WordSamples == {MIN_WORDS - 1, MIN_WORDS}

Pages ==
    { Page("ok", TRUE, w, <<"T", DQ>>) : w \in WordSamples }
    \cup { Page("ok", FALSE, MIN_WORDS, <<"T", DQ>>),
           Page("timeout", FALSE, 0, <<>>),
           Page("error", FALSE, 0, <<>>) }

\* The If-None-Match headers a client sends for a URL: none, the current
\* entity tag, the entity tag of an earlier parser version.
Headers(url) == { NoHeader, etag_for(url), etag_of(url, "v0") }

Init ==
    /\ now = 0
    /\ dir \in {"absent", "present", "blocked"}
    /\ files \in [Urls -> StartFiles]
    /\ dir # "present" => files = [u \in Urls |-> NoFile]
    /\ files["u2"] = NoFile
    /\ ret = NoCall
    /\ bucket = [ip \in Ips |-> NoBucket]
    /\ sbucket = [ip \in Ips |-> NoBucket]
    /\ log = <<>>
    /\ InitIdle

\* main.py:133-138, 298-314  a POST /v1/parse of client ip for url, up to its
\* response or to its suspension in fetch_html.
Parse(url, inm, ip) ==
    \E a \in {allow(bucket, ip, now)} :
    \E o \in {ratelimit_mw(a.ok, parse_start(dir, files, url, inm, now), dir, files)} :
        /\ bucket' = a.bucket
        /\ dir' = o.dir
        /\ files' = o.files
        /\ IF o.kind = "fetch"
           THEN /\ Suspended(inflight) < MaxInflight
                /\ inflight' = [inflight EXCEPT ![url] = @ + 1]
           ELSE inflight' = inflight
        /\ last' = [route |-> "parse", phase |-> "start", url |-> url, inm |-> inm,
                    ip |-> ip, status |-> o.status, errstatus |-> o.errstatus,
                    body |-> o.body, etag |-> o.etag, maxage |-> o.maxage,
                    reads |-> o.reads, writes |-> o.writes, fetches |-> 0,
                    words |-> -1]
        /\ UNCHANGED <<now, ret, sbucket, log, fresh, stored, stepVars>>

\* main.py:163-213, 314-324  fetch_html of a request suspended for url returns
\* or raises, and the handler runs to its response; after the fetch it uses
\* nothing of the request but the URL.
Fetched(url, page, fault) ==
    \E o \in {parse_finish(dir, files, url, page, now, fault)} :
        /\ inflight[url] > 0
        /\ dir' = o.dir
        /\ files' = o.files
        /\ inflight' = [inflight EXCEPT ![url] = @ - 1]
        /\ last' = [route |-> "parse", phase |-> "finish", url |-> url,
                    inm |-> NoHeader, ip |-> "ip1", status |-> o.status,
                    errstatus |-> o.errstatus, body |-> o.body, etag |-> o.etag,
                    maxage |-> o.maxage, reads |-> o.reads, writes |-> o.writes,
                    fetches |-> 1,
                    words |-> IF page.result = "ok" /\ page.html THEN page.words ELSE -1]
        /\ fresh' = IF o.status = 200 THEN [fresh EXCEPT ![url] = now] ELSE fresh
        /\ stored' = IF o.status = 200 /\ o.wrote
                     THEN [stored EXCEPT ![url] = now] ELSE stored
        /\ UNCHANGED <<now, ret, rateVars, stepVars>>

Next ==
    \/ Tick(MaxTime)
    \/ \E url \in Urls, ip \in {"ip1"} : \E inm \in Headers(url) : Parse(url, inm, ip)
    \/ \E url \in Urls, page \in Pages, fault \in BOOLEAN : Fetched(url, page, fault)

Spec == Init /\ [][Next]_vars

\* A step of the server that is a request's arrival (Parse): time stands
\* still and no suspended request is resumed.
RequestStep == now' = now /\ Suspended(inflight') >= Suspended(inflight)

\* A step of the server that resumes a suspended request (Fetched).
FinishStep == Suspended(inflight') < Suspended(inflight)

\* A step in which the handler of /v1/parse starts on a request that the
\* rate-limit middleware has admitted; last' is that request and its answer
\* (status 0: suspended in the fetch).
HandlerStarts == RequestStep /\ last'.phase = "start" /\ last'.status # 429

\* An unexpired, complete entry for url with the tag etag is on disk at time t.
EntryWithTag(fs, url, etag, t) ==
    LET f == fs[hash_key(url)]
    IN  /\ HoldsEntry(f)
        /\ json_loads_str(f.etag) = etag
        /\ ~(f.ttl > 0 /\ t - f.fetched_at > f.ttl)

\* Within the time-to-live of a record fetched at time t0.
WithinTtl(t0) == CACHE_TTL_SECONDS <= 0 \/ now - t0 <= CACHE_TTL_SECONDS

\* What C1 promises to a request for url: 304 without a body if it carries the
\* current tag, else 200 with that tag.
SecondAnswer ==
    /\ last'.inm = etag_for(last'.url) =>
           (last'.status = 304 /\ last'.body = NoPayload)
    /\ last'.inm # etag_for(last'.url) =>
           (last'.status = 200 /\ last'.etag = etag_for(last'.url))

C2_NotModifiedIff ==
    [][ /\ HandlerStarts =>
              /\ last'.status = 304 <=>
                     /\ last'.inm = etag_for(last'.url)
                     /\ EntryWithTag(files, last'.url, etag_for(last'.url), now)
              /\ last'.status = 304 => (last'.body = NoPayload /\ last'.etag = NoHeader)
        /\ FinishStep => (last'.phase = "finish" /\ last'.status # 304) ]_vars

\* C2's case: a request carrying the current tag, with no entry of that tag on
\* disk, that was not answered 304 but went on to the fetch.
C2_Witness ==
    /\ last.phase = "start" /\ last.status = 0
    /\ last.inm = etag_for(last.url)
    /\ inflight[last.url] > 0
    /\ files[hash_key(last.url)].kind = "json"

\* What C3 promises: 200 with exactly the cached payload, the ETag and
\* Cache-Control headers, and neither fetch nor extraction nor enrichment
\* (the request is not handed to core_parse, the cache is not written).
ServedFromCache ==
    /\ last'.status = 200
    /\ last'.body = PayloadOfText(files[hash_key(last'.url)].payload)
    /\ last'.etag = etag_for(last'.url)
    /\ last'.maxage = DEFAULT_CACHE_TTL_SECONDS
    /\ last'.fetches = 0 /\ last'.writes = 0
    /\ inflight' = inflight
    /\ files' = files

\* C3 (as claimed): whenever an unexpired entry with the current tag is on
\* disk, the response is 200 with the cached payload and the caching headers,
\* without fetch, extraction or enrichment.
C3_AsClaimed ==
    [][ (HandlerStarts /\ EntryWithTag(files, last'.url, etag_for(last'.url), now))
        => ServedFromCache ]_vars

\* C3 (amended): so it is for a request that does not carry the current tag
\* in If-None-Match; one that does is answered 304 with neither body nor
\* headers.
C3_HitUnlessConditional ==
    [][ ( /\ HandlerStarts
          /\ EntryWithTag(files, last'.url, etag_for(last'.url), now)
          /\ last'.inm # etag_for(last'.url) )
        => ServedFromCache ]_vars

\* C3's case: a 200 served from an entry that an earlier request fetched.
C3_Witness ==
    /\ last.phase = "start" /\ last.status = 200 /\ last.fetches = 0
    /\ last.body.title = <<"T", DQ>>
    /\ last.body.fetched_at < now

\* C4: a request whose fetched page gave fewer than 10 words of cleaned text
\* is answered 422, never 200, and no record is built or stored for it.
C4_TooLittleText ==
    (last.phase = "finish" /\ last.words >= 0 /\ last.words < 10) =>
        (last.status = 422 /\ last.body = NoPayload /\ last.writes = 0)

\* C4's case: a page of 9 words was fetched and the request answered 422.
C4_Witness == last.phase = "finish" /\ last.words = 9 /\ last.status = 422

\* C7: a request the rate limiter rejects is answered 429 before anything
\* else is done: the cache directory and files are neither read nor changed
\* and no fetch is started; and no request is rejected after its fetch.
C7_RejectedDoesNothing ==
    [][ ((RequestStep \/ FinishStep) /\ last'.status = 429) =>
            /\ RequestStep /\ last'.phase = "start"
            /\ last'.reads = 0 /\ last'.writes = 0 /\ last'.fetches = 0
            /\ dir' = dir /\ files' = files /\ inflight' = inflight ]_vars

\* C7's case: a request for a URL that would have been a cache miss was
\* rejected with 429.
C7_Witness ==
    /\ last.status = 429 /\ last.errstatus = 429
    /\ files[hash_key(last.url)].kind = "none"
    /\ bucket[last.ip].tokens < Token

(***************************************************************************)
(* fetch_html (app/extractor.py), GET by GET, inside a request of          *)
(* /v1/parse that missed the cache.  What a GET gives: a response that     *)
(* raise_for_status accepts ("ok"), httpx.TimeoutException ("timeout"),    *)
(* another httpx.TransportError such as ConnectError ("transport"), the    *)
(* httpx.HTTPStatusError that raise_for_status raises for a 4xx or 5xx     *)
(* response ("status"), or an exception that is no httpx.HTTPError         *)
(* ("other").  TimeoutException, TransportError and HTTPStatusError are    *)
(* all subclasses of httpx.HTTPError.  Sleeps are counted in half seconds. *)
(* An ended call is "done"; once the handler has answered, "answered".     *)
(***************************************************************************)
GetOutcomes == {"ok", "timeout", "transport", "status", "other"}

\* extractor.py:129  range(3)
ATTEMPTS == 3

\* extractor.py:158  except (httpx.TimeoutException, httpx.HTTPError)
caught(outcome) == outcome \in {"timeout", "transport", "status"}

\* extractor.py:163  0.5 * (2 ** attempt) seconds, in half seconds
backoff(attempt) == 2 ^ attempt

\* extractor.py:129-163  the next step of the loop of fetch_html in state f:
\* at "get" one GET of the requested URL with the given outcome (and, for a
\* sparse Wikipedia page, `wiki`, one more GET of its printable view, whose
\* failure is swallowed), at "sleep" the backoff.  `html` tells whether the
\* content-type header of the response returned holds text/html.
fetch_step(f, outcome, wiki, html) ==
    IF f.pc = "sleep"
    THEN [f EXCEPT !.pc = "get", !.sleeps = Append(@, backoff(f.attempt)),
                   !.attempt = @ + 1]
    ELSE IF outcome = "ok"
    THEN [f EXCEPT !.pc = "done", !.gets = @ + 1, !.result = "ok",
                   !.extra = IF wiki THEN @ + 1 ELSE @, !.html = html]
    ELSE IF caught(outcome) /\ f.attempt # ATTEMPTS - 1
    THEN [f EXCEPT !.pc = "sleep", !.gets = @ + 1, !.errors = Append(@, outcome)]
    ELSE [f EXCEPT !.pc = "done", !.gets = @ + 1, !.errors = Append(@, outcome),
                   !.result = outcome]

\* main.py:387-399  what core_parse sees of a finished fetch_html: its return
\* value, or the exception it raised, by the handler that takes it.
PageOf(result, html, words) ==
    IF result = "ok" THEN Page("ok", html, words, <<"T", DQ>>)
    ELSE IF result = "timeout" THEN Page("timeout", FALSE, 0, <<>>)
    ELSE Page("error", FALSE, 0, <<>>)

\* main.py:298-314, 163  an admitted request for url misses the cache and
\* calls fetch_html.
FetchBegin(url) ==
    \E o \in {parse_start(dir, files, url, NoHeader, now)} :
        /\ fx.pc \in {"idle", "answered"}
        /\ o.kind = "fetch"
        /\ dir' = o.dir
        /\ fx' = [NoFetch EXCEPT !.pc = "get", !.url = url]
        /\ last' = [route |-> "parse", phase |-> "start", url |-> url, inm |-> NoHeader, ip |-> "ip1",
                    status |-> o.status, errstatus |-> o.errstatus, body |-> o.body,
                    etag |-> o.etag, maxage |-> o.maxage, reads |-> o.reads,
                    writes |-> o.writes, fetches |-> 0, words |-> -1]
        /\ UNCHANGED <<now, files, ret, rateVars, inflight, fresh, stored, tmps, wr, pending, chk, txt, wrs, get2, mrg>>

\* extractor.py:129-163  one step of the loop.
FetchStep(outcome, wiki, html) ==
    /\ fx.pc \in {"get", "sleep"}
    /\ fx' = fetch_step(fx, outcome, wiki, html)
    /\ UNCHANGED <<now, cacheVars, rateVars, srvVars, tmps, wr, pending, chk, txt, wrs, get2, mrg>>

\* main.py:163-213, 314-324  fetch_html has returned or raised, and the
\* handler runs to its response.
FetchEnd(words, fault) ==
    \E o \in {parse_finish(dir, files, fx.url, PageOf(fx.result, fx.html, words), now, fault)} :
        /\ fx.pc = "done"
        /\ dir' = o.dir
        /\ files' = o.files
        /\ fx' = [fx EXCEPT !.pc = "answered"]
        /\ last' = [route |-> "parse", phase |-> "finish", url |-> fx.url, inm |-> NoHeader, ip |-> "ip1",
                    status |-> o.status, errstatus |-> o.errstatus, body |-> o.body,
                    etag |-> o.etag, maxage |-> o.maxage, reads |-> o.reads,
                    writes |-> o.writes, fetches |-> 1,
                    words |-> IF fx.result = "ok" /\ fx.html THEN words ELSE -1]
        /\ UNCHANGED <<now, ret, rateVars, inflight, fresh, stored, tmps, wr, pending, chk, txt, wrs, get2, mrg>>

NextFetch ==
    \/ Tick(MaxTime)
    \/ \E url \in Urls : FetchBegin(url)
    \/ \E outcome \in GetOutcomes, wiki \in BOOLEAN, html \in BOOLEAN :
           FetchStep(outcome, wiki, html)
    \/ \E words \in WordSamples, fault \in BOOLEAN : FetchEnd(words, fault)

SpecFetch == Init /\ [][NextFetch]_vars

\* C13 (as claimed): fetch_html makes at most 3 GETs of the requested URL; it
\* goes on to another attempt only after a timeout or a transport error; the
\* sleep after attempt k (from 0) is 0.5 * 2^k seconds; when it raises, it
\* raises the error of its last attempt; and a successful GET ends it.
C13_FetchRetries ==
    /\ fx.gets <= 3
    /\ \A i \in 1 .. Len(fx.errors) :
           (i < Len(fx.errors) \/ fx.pc = "sleep") =>
               fx.errors[i] \in {"timeout", "transport"}
    /\ \A i \in 1 .. Len(fx.sleeps) : 2 * fx.sleeps[i] = 2 ^ i
    /\ (fx.pc \in {"done", "answered"} /\ fx.result # "ok") =>
           fx.result = fx.errors[Len(fx.errors)]
    /\ (fx.pc \in {"done", "answered"} /\ fx.result = "ok") =>
           (fx.gets = Len(fx.errors) + 1 /\ fx.gets = Len(fx.sleeps) + 1)

\* C14 (as claimed): a 4xx or 5xx response makes fetch_html raise at once: it
\* is the last thing the call does, with no sleep and no GET after it.
C14_StatusNotRetried ==
    \A i \in 1 .. Len(fx.errors) :
        fx.errors[i] = "status" =>
            (i = Len(fx.errors) /\ fx.pc \in {"done", "answered"} /\ fx.result = "status")

\* C17: a request of /v1/parse whose fetch made all its attempts and timed
\* out in each is answered 504 with the error status 504, and nothing is
\* written to the cache.
C17_AllTimeouts504 ==
    (fx.pc = "answered" /\ fx.errors = <<"timeout", "timeout", "timeout">>) =>
        (last.status = 504 /\ last.errstatus = 504 /\ last.writes = 0)

\* C17's case: three GETs, three timeouts, the two sleeps between them, and
\* the answer 504.
C17_Witness ==
    /\ fx.pc = "answered" /\ fx.gets = 3
    /\ fx.errors = <<"timeout", "timeout", "timeout">>
    /\ fx.sleeps = <<1, 2>>
    /\ last.phase = "finish" /\ last.status = 504

\* C18: a request of /v1/parse that missed the cache and whose fetch returned
\* a response of another content type than text/html is answered 415: no
\* record is built from it, and the cache is not written.
C18_NotHtml415 ==
    (fx.pc = "answered" /\ fx.result = "ok" /\ ~fx.html) =>
        /\ last.status = 415
        /\ last.body = NoPayload /\ last.etag = NoHeader
        /\ last.writes = 0 /\ last.words = -1

\* C18's case: the second GET returned a response that is not HTML, and the
\* request was answered 415 with the entry file of the URL still absent.
C18_Witness ==
    /\ fx.pc = "answered" /\ fx.result = "ok" /\ ~fx.html /\ fx.gets = 2
    /\ last.phase = "finish" /\ last.status = 415
    /\ files[hash_key(fx.url)].kind = "none"

(***************************************************************************)
(* The other answers of the application: GET /v1/health, a POST /v1/parse  *)
(* whose body fails the validation of ParseRequest, and a request to a     *)
(* path that no route has.  Each passes ratelimit_mw first.  FastAPI       *)
(* answers a body that fails validation (RequestValidationError) with 422  *)
(* and {"detail": [...]}, and Starlette an unknown path, like any          *)
(* HTTPException, with its status and {"detail": ...}; the application     *)
(* registers no handler for either (main.py:382-399).                      *)
(***************************************************************************)
\* main.py:288-290  health()
health(d, fs) == Outcome("resp", 200, 0, NoPayload, NoHeader, -1, d, fs, 0, 0, FALSE)

\* models.py:7-10, main.py:298  url: AnyHttpUrl rejects the body before
\* parse() is entered.
invalid_body(d, fs) == Outcome("resp", 422, 0, NoPayload, NoHeader, -1, d, fs, 0, 0, FALSE)

\* main.py:288-378  no route matches the path.
unknown_route(d, fs) == Outcome("resp", 404, 0, NoPayload, NoHeader, -1, d, fs, 0, 0, FALSE)

\* A request of client ip that ratelimit_mw passes on to `handled`; route
\* names what was asked for.
Ask(route, ip, handled) ==
    \E a \in {allow(bucket, ip, now)} :
    \E o \in {ratelimit_mw(a.ok, handled, dir, files)} :
        /\ bucket' = a.bucket
        /\ last' = [route |-> route, phase |-> route, url |-> "u1", inm |-> NoHeader, ip |-> ip,
                    status |-> o.status, errstatus |-> o.errstatus, body |-> o.body,
                    etag |-> o.etag, maxage |-> o.maxage, reads |-> o.reads,
                    writes |-> o.writes, fetches |-> 0, words |-> -1]
        /\ UNCHANGED <<now, cacheVars, sbucket, log, inflight, fresh, stored, stepVars>>

\* GET /v1/health
Health(ip) == Ask("health", ip, health(dir, files))

\* POST /v1/parse {"url": "not-a-url"}
ParseInvalid(ip) == Ask("invalid", ip, invalid_body(dir, files))

\* GET /v1/unknown
Unknown(ip) == Ask("unknown", ip, unknown_route(dir, files))

NextRoutes ==
    \/ Tick(MaxTime)
    \/ \E ip \in Ips : Health(ip)
    \/ \E ip \in Ips : ParseInvalid(ip)
    \/ \E ip \in Ips : Unknown(ip)

SpecRoutes == Init /\ [][NextRoutes]_vars

\* C15 (as claimed): every response with an error status carries the object
\* `error` whose status is the HTTP status (errstatus is 0 for a body
\* without that object).
C15_StructuredErrors == last.status >= 400 => last.errstatus = last.status

\* C16 (as claimed): a POST /v1/parse whose url is no absolute http(s) URL is
\* answered 400 with error.status 400, and neither the cache nor the network
\* is touched.
C16_InvalidUrl400 ==
    (last.phase = "invalid" /\ last.status # 429) =>
        /\ last.status = 400 /\ last.errstatus = 400
        /\ last.reads = 0 /\ last.writes = 0 /\ last.fetches = 0

\* C19 (as claimed): GET /v1/health is answered 200, whoever asks and
\* whatever the state of the server.
C19_HealthAlways200 == last.phase = "health" => last.status = 200

(***************************************************************************)
(* The projection routes /v1/metadata, /v1/summary and /v1/preview         *)
(* (app/main.py).  Each calls parse() with the request it was given and    *)
(* projects the body of the response it gets back.                         *)
(***************************************************************************)
\* main.py:243  text[:280] plus an ellipsis if len(text) > 300; the
\* ellipsis is the one character U+2026.
ELLIPSIS == "..."

SNIPPET_OVER == 300
SNIPPET_KEEP == 280

\* main.py:338  json.loads(full.body.decode()): the body as JSONResponse
\* rendered it, read back.
json_body(b) == PayloadOfText(PayloadText(b))

\* A metadata route that returns the record as parse() gives it.
project_metadata_full(full) == full

\* main.py:217-226
project_metadata(full) ==
    [url |-> full.url, title |-> full.title, language |-> full.language,
     published_at |-> full.published_at, lead_image_url |-> full.lead_image_url,
     word_count |-> full.word_count, site |-> full.site]

\* main.py:229-238
project_summary(full) ==
    [url |-> full.url, title |-> full.title, summary |-> full.summary,
     keywords |-> full.keywords,
     sentiment |-> full.sentiment, language |-> full.language, site |-> full.site]

\* main.py:241-251
project_preview(full) ==
    LET text    == IF full.summary # <<>> THEN full.summary ELSE full.text
        snippet == IF Len(text) > SNIPPET_OVER
                   THEN SubSeq(text, 1, SNIPPET_KEEP) \o <<ELLIPSIS>> ELSE text
    IN  [url |-> full.url, title |-> full.title, snippet |-> snippet,
         lead_image_url |-> full.lead_image_url, published_at |-> full.published_at,
         site |-> full.site]

project(route, full) ==
    CASE route = "metadata" -> project_metadata(full)
      [] route = "summary"  -> project_summary(full)
      [] OTHER              -> project_preview(full)

\* main.py:330, 348, 366  the entity tag of a projection
suffix(route) ==
    CASE route = "metadata" -> "-meta"
      [] route = "summary"  -> "-sum"
      [] OTHER              -> "-prev"

proj_etag(route, url) == etag_for(url) \o <<suffix(route)>>

\* main.py:328-342 (and 346-360, 364-378)  what the route makes of the
\* response o of parse(): a 200 is projected and given the route's headers,
\* a 304 is passed on, an exception propagates.
projected(route, url, o) ==
    IF o.kind = "resp" /\ o.status = 200
    THEN [o EXCEPT !.body = project(route, json_body(o.body)),
                   !.etag = proj_etag(route, url),
                   !.maxage = DEFAULT_CACHE_TTL_SECONDS]
    ELSE o

\* main.py:328-335  the route from its start to the fetch inside parse()
proj_start(route, d, fs, url, inm, t) ==
    IF inm = proj_etag(route, url)
    THEN Outcome("resp", 304, 0, NoPayload, NoHeader, -1, d, fs, 0, 0, FALSE)
    ELSE projected(route, url, parse_start(d, fs, url, inm, t))

\* main.py:335-342  the rest of parse(), and of the route, after the fetch
proj_finish(route, d, fs, url, page, t, fault) ==
    projected(route, url, parse_finish(d, fs, url, page, t, fault))

\* The requests suspended in fetch_html, of all routes.
AllSuspended ==
    Suspended(inflight) + Suspended(pending["metadata"])
        + Suspended(pending["summary"]) + Suspended(pending["preview"])

\* main.py:327-378  a POST to a projection route for url that ratelimit_mw
\* has admitted, up to its response or to its suspension in fetch_html.
Project(route, url, inm) ==
    \E o \in {proj_start(route, dir, files, url, inm, now)} :
        /\ dir' = o.dir
        /\ files' = o.files
        /\ IF o.kind = "fetch"
           THEN /\ AllSuspended < MaxInflight
                /\ pending' = [pending EXCEPT ![route][url] = @ + 1]
           ELSE pending' = pending
        /\ last' = [route |-> route, phase |-> "start", url |-> url, inm |-> inm,
                    ip |-> "ip1", status |-> o.status, errstatus |-> o.errstatus,
                    body |-> o.body, etag |-> o.etag, maxage |-> o.maxage,
                    reads |-> o.reads, writes |-> o.writes, fetches |-> 0,
                    words |-> -1]
        /\ UNCHANGED <<now, ret, rateVars, inflight, fresh, stored, tmps, wr, fx, chk, txt, wrs, get2, mrg>>

\* main.py:160-213, 314-324, 335-342  fetch_html of a suspended projection
\* request returns or raises, and parse() and the route run to the response.
ProjFetched(route, url, page, fault) ==
    \E o \in {proj_finish(route, dir, files, url, page, now, fault)} :
        /\ pending[route][url] > 0
        /\ dir' = o.dir
        /\ files' = o.files
        /\ pending' = [pending EXCEPT ![route][url] = @ - 1]
        /\ last' = [route |-> route, phase |-> "finish", url |-> url,
                    inm |-> NoHeader, ip |-> "ip1", status |-> o.status,
                    errstatus |-> o.errstatus, body |-> o.body, etag |-> o.etag,
                    maxage |-> o.maxage, reads |-> o.reads, writes |-> o.writes,
                    fetches |-> 1,
                    words |-> IF page.result = "ok" /\ page.html THEN page.words ELSE -1]
        /\ UNCHANGED <<now, ret, rateVars, inflight, fresh, stored, tmps, wr, fx, chk, txt, wrs, get2, mrg>>

\* The If-None-Match headers sent to a projection route: none, the route's
\* entity tag, the entity tag of /v1/parse.
ProjHeaders(route, url) == { NoHeader, proj_etag(route, url), etag_for(url) }

\* Pages fetched for the projection routes: one with a summary, one without,
\* two without and with a text of more than SNIPPET_OVER and of just more
\* than SNIPPET_KEEP characters, one too short, one that is not HTML.
ProjPages ==
    { Page("ok", TRUE, MIN_WORDS, <<"T", DQ>>),
      [Page("ok", TRUE, MIN_WORDS + 1, <<"T">>) EXCEPT !.summary = <<>>],
      [Page("ok", TRUE, SNIPPET_OVER \div 2 + 1, <<"T">>) EXCEPT !.summary = <<>>],
      [Page("ok", TRUE, SNIPPET_KEEP \div 2 + 1, <<"T">>) EXCEPT !.summary = <<>>],
      Page("ok", TRUE, MIN_WORDS - 1, <<"T">>),
      Page("ok", FALSE, MIN_WORDS, <<"T">>) }

\* The cache when the server starts: as in Init, or holding for "u1" a
\* record that /v1/parse stored in an earlier run.
StoredFile ==
    blob(etag_for("u1"), Record(<<"u1">>, <<"T", BS>>, MIN_WORDS, <<"S">>, 0),
         CACHE_TTL_SECONDS, 0)

InitProj ==
    /\ now = 0
    /\ dir \in {"absent", "present", "blocked"}
    /\ files \in [Urls -> StartFiles \cup {StoredFile}]
    /\ dir # "present" => files = [u \in Urls |-> NoFile]
    /\ files["u2"] = NoFile
    /\ ret = NoCall
    /\ bucket = [ip \in Ips |-> NoBucket]
    /\ sbucket = [ip \in Ips |-> NoBucket]
    /\ log = <<>>
    /\ InitIdle

NextProj ==
    \/ Tick(MaxTime)
    \/ \E route \in ProjRoutes : \E inm \in ProjHeaders(route, "u1") :
           Project(route, "u1", inm)
    \/ \E route \in ProjRoutes, page \in ProjPages, fault \in BOOLEAN :
           ProjFetched(route, "u1", page, fault)

SpecProj == InitProj /\ [][NextProj]_vars

\* The fields of each projection.
Fields(route) ==
    CASE route = "metadata" -> {"url", "title", "language", "published_at",
                                "lead_image_url", "word_count", "site"}
      [] route = "summary"  -> {"url", "title", "summary", "keywords", "sentiment",
                                "language", "site"}
      [] OTHER              -> {"url", "title", "snippet", "lead_image_url",
                                "published_at", "site"}

\* s is the text t, or its beginning followed by one more character.
Abridges(s, t) ==
    \/ s = t
    \/ /\ 0 < Len(s) /\ Len(s) <= Len(t)
       /\ SubSeq(s, 1, Len(s) - 1) = SubSeq(t, 1, Len(s) - 1)
       /\ s[Len(s)] = ELLIPSIS

\* body is the projection of the full record by the fields of route: it has
\* exactly those fields, each with the value the record has for it; the
\* snippet of a preview is the record's summary (its text when the summary
\* is empty), whole or abridged.
IsProjection(route, body, full) ==
    /\ DOMAIN body = Fields(route)
    /\ \A f \in Fields(route) \ {"snippet"} : body[f] = full[f]
    /\ route = "preview" =>
           Abridges(body.snippet,
                    IF full.summary # <<>> THEN full.summary ELSE full.text)

\* A step in which a projection route answers 200.
Projected200 == now' = now /\ last'.route \in ProjRoutes /\ last'.status = 200

\* C20: a projection route that answers 200 from the cache answers the
\* projection of the record /v1/parse answers in that state, and leaves the
\* cache as it is; one that answers 200 after a fetch answers the projection
\* of the record it built, and the entry it has written to the cache holds
\* that record in full.
C20_ProjectionOfFull ==
    [][ Projected200 =>
            LET key  == hash_key(last'.url)
                full == PayloadOfText(files'[key].payload)
                hit  == parse_start(dir, files, last'.url, NoHeader, now)
            IN  /\ last'.phase = "start" =>
                    /\ hit.status = 200
                    /\ IsProjection(last'.route, last'.body, hit.body)
                    /\ files' = files
                /\ last'.phase = "finish" =>
                    /\ DOMAIN last'.body = Fields(last'.route)
                    /\ last'.body.url = <<last'.url>>
                    /\ last'.route = "metadata" =>
                           last'.body.word_count = last'.words
                    /\ files' # files =>
                          /\ HoldsEntry(files'[key])
                          /\ DOMAIN full = DOMAIN Record(<<>>, <<>>, 0, <<>>, 0)
                          /\ full.word_count = last'.words
                          /\ IsProjection(last'.route, last'.body, full) ]_vars

\* C20's case: /v1/preview has fetched a page without summary whose text is
\* longer than a snippet, answered 200 with the abridged text, and stored
\* the record with the whole text.
C20_Witness ==
    /\ last.route = "preview" /\ last.phase = "finish" /\ last.status = 200
    /\ Len(last.body.snippet) = SNIPPET_KEEP + 1
    /\ HoldsEntry(files[hash_key(last.url)])
    /\ Len(json_loads_str(files[hash_key(last.url)].payload.text)) > SNIPPET_OVER

\* C12 (as claimed): no state of the cache makes /v1/parse answer with an
\* error: before the fetch an admitted request is answered 304 or 200 or goes
\* on to the fetch, and after a fetch that gave an HTML page with enough text
\* it is answered 200 with the fresh record, whether or not the record could
\* be written to the cache.
C12_CacheErrorsHidden ==
    /\ (last.phase = "start" /\ last.status # 429) => last.status \in {0, 200, 304}
    /\ (last.phase = "finish" /\ last.words >= MIN_WORDS) =>
           (last.status = 200 /\ last.body.word_count = last.words)

\* A step in which a projection route is asked and answers, or suspends in
\* the fetch.
ProjAsked == now' = now /\ last'.route \in ProjRoutes /\ last'.phase = "start"

\* The cache holds an unexpired entry of url under the current entity tag.
Held(url) ==
    LET c == cache_get(dir, files, url, now)
    IN  ~c.raised /\ cache_hit(c, etag_for(url))

\* C21 (as claimed): a projection route answers 304 exactly when the
\* If-None-Match of the request is the route's own suffixed entity tag and the
\* cache holds an entry under the current entity tag; with such an entry and
\* any other If-None-Match it answers 200.
C21_ProjConditional ==
    [][ ProjAsked =>
            LET own == proj_etag(last'.route, last'.url)
            IN  /\ last'.status = 304 <=> (last'.inm = own /\ Held(last'.url))
                /\ (last'.inm # own /\ Held(last'.url)) => last'.status = 200 ]_vars

\* C22 (as claimed): the snippet of a preview is made from the record's
\* summary, or from its text when the summary is empty: a source of more than
\* 280 characters gives its first 280 characters and the ellipsis, a shorter
\* one is given unchanged; no snippet is longer than 280 characters and the
\* ellipsis.
C22_SnippetRule ==
    [][ ( /\ Projected200 /\ last'.route = "preview"
          /\ last'.phase = "finish" => files' # files
          /\ HoldsEntry(files'[hash_key(last'.url)]) ) =>
            LET full == PayloadOfText(files'[hash_key(last'.url)].payload)
                src  == IF full.summary # <<>> THEN full.summary ELSE full.text
            IN  /\ last'.body.snippet =
                       IF Len(src) > SNIPPET_KEEP
                       THEN SubSeq(src, 1, SNIPPET_KEEP) \o <<ELLIPSIS>> ELSE src
                /\ Len(last'.body.snippet) <= SNIPPET_KEEP + 1 ]_vars

\* C23 (as claimed): the max-age of a 200 response of /v1/parse is the ttl of
\* the cache entry that holds the record under the current entity tag, for a
\* response after a fetch and for one served from the cache.
C23_MaxAgeIsStoredTtl ==
    ( /\ last.route = "parse" /\ last.status = 200
      /\ HoldsEntry(files[hash_key(last.url)])
      /\ json_loads_str(files[hash_key(last.url)].etag) = etag_for(last.url) ) =>
        last.maxage = files[hash_key(last.url)].ttl

(***************************************************************************)
(* The identity ratelimit_mw charges (main.py:135): the x-forwarded-for    *)
(* header if it is there and not empty, else the address of the peer, else *)
(* "0.0.0.0"; of that text the part before the first comma, stripped.  A   *)
(* header is a sequence of addresses, commas and spaces.                   *)
(***************************************************************************)
UNKNOWN == "0.0.0.0"
COMMA == ","
SP == " "

\* req.client is None
NoPeer == "none"

\* s.split(",")[0]
split_first(s) ==
    LET cs == {i \in 1 .. Len(s) : s[i] = COMMA}
    IN  IF cs = {} THEN s
        ELSE SubSeq(s, 1, (CHOOSE i \in cs : \A j \in cs : i <= j) - 1)

\* s.strip()
strip(s) ==
    LET ks == {i \in 1 .. Len(s) : s[i] # SP}
    IN  IF ks = {} THEN <<>>
        ELSE SubSeq(s, CHOOSE i \in ks : \A j \in ks : i <= j,
                       CHOOSE i \in ks : \A j \in ks : i >= j)

\* An identity taken from the address of the peer, whatever the header says.
client_ip_of_peer(xff, peer) ==
    strip(split_first(<<IF peer # NoPeer THEN peer ELSE UNKNOWN>>))

\* main.py:135
client_ip(xff, peer) ==
    strip(split_first(IF xff # <<>> THEN xff
                      ELSE <<IF peer # NoPeer THEN peer ELSE UNKNOWN>>))

\* The identities that have a bucket.
Clients == Ips \cup {UNKNOWN}

\* The x-forwarded-for headers of the requests: none, one address, a list
\* with spaces around its first address.
XffHeaders == { <<>>, <<"ip2">>, <<SP, "ip1", SP, COMMA, SP, "ip2">> }

Peers == {"ip1", NoPeer}

\* main.py:133-138, 288-290  GET /v1/health with the header xff from the
\* peer: ratelimit_mw charges the identity's bucket and answers 429 or
\* passes the request on.
Arrive(xff, peer) ==
    \E ip \in {client_ip(xff, peer)[1]} :
    \E a \in {allow(bucket, ip, now)} :
    \E o \in {ratelimit_mw(a.ok, health(dir, files), dir, files)} :
        /\ bucket' = a.bucket
        /\ last' = [route |-> "health", phase |-> "arrive", url |-> "u1",
                    inm |-> NoHeader, ip |-> ip, status |-> o.status,
                    errstatus |-> o.errstatus, body |-> o.body, etag |-> o.etag,
                    maxage |-> o.maxage, reads |-> o.reads, writes |-> o.writes,
                    fetches |-> 0, words |-> -1, xff |-> xff, peer |-> peer]
        /\ UNCHANGED <<now, cacheVars, sbucket, log, inflight, fresh, stored, stepVars>>

InitIdent ==
    /\ now = 0
    /\ dir = "absent"
    /\ files = [u \in Urls |-> NoFile]
    /\ ret = NoCall
    /\ bucket = [ip \in Clients |-> NoBucket]
    /\ sbucket = [ip \in Ips |-> NoBucket]
    /\ log = <<>>
    /\ InitIdle

\* Ticks over which the requests of SpecIdent arrive.
IdentHorizon == 1

NextIdent ==
    \/ Tick(IdentHorizon)
    \/ \E xff \in XffHeaders, peer \in Peers : Arrive(xff, peer)

SpecIdent == InitIdent /\ [][NextIdent]_vars

\* v is the first value of the header h: h is spaces, v, spaces, and then
\* ends or goes on with a comma.
FirstValue(h, v) ==
    \E i \in 1 .. Len(h) :
        /\ h[i] = v
        /\ \A j \in 1 .. i - 1 : h[j] = SP
        /\ \E k \in i + 1 .. Len(h) + 1 :
               /\ \A j \in i + 1 .. k - 1 : h[j] = SP
               /\ k = Len(h) + 1 \/ h[k] = COMMA

\* The identity the claim gives a request.
Claimed(xff, peer, id) ==
    IF xff # <<>> THEN FirstValue(xff, id)
    ELSE IF peer # NoPeer THEN id = peer
    ELSE id = UNKNOWN

\* C24: a request is charged to the bucket of the first value of its
\* forwarded-for header, without one to that of its peer address, without
\* either to that of the one identity of unknown clients; every other
\* identity's bucket is left as it was, and the request is rejected only if
\* its own bucket, refilled, holds less than one token.
C24_OwnBucketOnly ==
    [][ (now' = now /\ last'.phase = "arrive") =>
            LET id == last'.ip
                b  == bucket[id]
            IN  /\ Claimed(last'.xff, last'.peer, id)
                /\ bucket'[id].has /\ bucket'[id].ts = now
                /\ \A o \in Clients \ {id} : bucket'[o] = bucket[o]
                /\ last'.status = 429 =>
                       /\ b.has
                       /\ Min(BURST * Token,
                              b.tokens + RATE_LIMIT_PER_MIN * (now - b.ts)) < Token ]_vars

\* C24's case: the bucket of "ip1" is empty and a request from the peer
\* "ip1" is rejected; a request from that same peer whose forwarded-for
\* header names "ip2" first is admitted at the same instant.
C24_Witness ==
    /\ last.phase = "arrive" /\ last.peer = "ip1" /\ last.xff = <<"ip2">>
    /\ last.ip = "ip2" /\ last.status = 200
    /\ bucket["ip1"].has /\ bucket["ip1"].tokens < Token /\ bucket["ip1"].ts = now
    /\ bucket[UNKNOWN].has

(***************************************************************************)
(* RateLimiter.check_rate_limit on its own, the arguments and the verdict  *)
(* of the last call kept.                                                  *)
(***************************************************************************)
\* utils.py:68-89  a call of check_rate_limit(ip, limit_per_min)
StrictCheck(ip, limit_per_min) ==
    \E c \in {check_rate_limit(sbucket, ip, limit_per_min, now)} :
        /\ sbucket' = c.bucket
        /\ last' = [route |-> "none", phase |-> "check", url |-> "u1",
                    inm |-> NoHeader, ip |-> ip,
                    status |-> IF c.raised THEN RateLimited.status ELSE 0,
                    errstatus |-> 0, body |-> NoPayload, etag |-> NoHeader,
                    maxage |-> -1, reads |-> 0, writes |-> 0, fetches |-> 0,
                    words |-> -1, limit |-> limit_per_min]
        /\ UNCHANGED <<now, cacheVars, bucket, log, inflight, fresh, stored, stepVars>>

NextStrict ==
    \/ Tick(MaxTime)
    \/ \E ip \in {"ip1"}, limit_per_min \in {RATE_LIMIT_PER_MIN, RATE} :
           StrictCheck(ip, limit_per_min)

SpecStrict == InitRate /\ [][NextStrict]_vars

\* C25 (as claimed): check_rate_limit(ip, limit_per_min) refills the bucket
\* of ip by limit_per_min tokens per 60 seconds up to the capacity 30; if that
\* gives less than one token it raises and stores the refilled amount,
\* otherwise it stores the refilled amount less exactly one token.
C25_StrictRefillByLimit ==
    [][ (now' = now /\ last'.phase = "check") =>
            LET ip       == last'.ip
                cur      == IF sbucket[ip].has THEN sbucket[ip]
                            ELSE [has |-> TRUE, tokens |-> 30 * Token, ts |-> now]
                refilled == Min(30 * Token, cur.tokens + last'.limit * (now - cur.ts))
            IN  /\ refilled < Token =>
                       (last'.status = 429 /\ sbucket'[ip].tokens = refilled)
                /\ refilled >= Token =>
                       (last'.status = 0 /\ sbucket'[ip].tokens = refilled - Token) ]_vars

(***************************************************************************)
(* Concurrent checks of one identity.  RateLimiter.check_rate_limit is     *)
(* called by threads and runs under self._lock (utils.py:72-87), statement *)
(* by statement; main._allow is called by ratelimit_mw on the event loop   *)
(* and has no await in it, so each call runs from start to end before the  *)
(* next task is scheduled.  No time passes.                                *)
(***************************************************************************)
\* Whole tokens a bucket may hold when the threads start.
StartTokens == 2

\* Entering the critical section without taking the lock.
may_enter_unlocked(lock, t) == TRUE

\* utils.py:72  `with self._lock`: acquire() returns when the lock is free.
may_enter(lock, t) == lock = "free"

\* utils.py:69-87  the next statement of thread t in check_rate_limit(ip, _)
\* on the table sb at time `time`.  b is the dict the thread works on: the
\* one stored in the table (`alias`) or, for a new identity, one of its own.
strict_step(c, sb, t, ip, time) ==
    LET me   == c.th[t]
        cur  == IF me.alias THEN sb[ip] ELSE me.b
        go(th2, sb2, lock2) ==
            [enabled |-> TRUE, chk |-> [c EXCEPT !.th[t] = th2, !.lock = lock2],
             sbucket |-> sb2]
        assign(v, pc2) ==
            IF me.alias
            THEN go([me EXCEPT !.pc = pc2], [sb EXCEPT ![ip] = v], c.lock)
            ELSE go([me EXCEPT !.pc = pc2, !.b = v], sb, c.lock)
    IN  CASE me.pc = "idle" -> go([pc |-> "lock"], sb, c.lock)
          [] me.pc = "lock" ->
                IF may_enter(c.lock, t)
                THEN go([pc |-> "get"], sb, t)
                ELSE [enabled |-> FALSE, chk |-> c, sbucket |-> sb]
          [] me.pc = "get" ->
                go([pc |-> "refill", alias |-> sb[ip].has,
                    b |-> [has |-> TRUE, tokens |-> STRICT_BURST * Token, ts |-> time]],
                   sb, c.lock)
          [] me.pc = "refill" ->
                assign([cur EXCEPT !.tokens = Min(STRICT_BURST * Token,
                                                  @ + RATE * (time - cur.ts)),
                                   !.ts = time], "test")
          [] me.pc = "test" ->
                IF cur.tokens < Token
                THEN go([pc |-> "release", ok |-> FALSE], [sb EXCEPT ![ip] = cur], c.lock)
                ELSE go([me EXCEPT !.pc = "consume"], sb, c.lock)
          [] me.pc = "consume" ->
                go([pc |-> "release", ok |-> TRUE],
                   [sb EXCEPT ![ip] = [cur EXCEPT !.tokens = @ - Token]], c.lock)
          [] me.pc = "release" -> go([pc |-> "done", ok |-> me.ok], sb, "free")
          [] OTHER -> [enabled |-> FALSE, chk |-> c, sbucket |-> sb]

\* A thread in check_rate_limit("ip1", _) executes its next statement.
StrictStep(t) ==
    \E r \in {strict_step(chk, sbucket, t, "ip1", now)} :
        /\ r.enabled
        /\ chk' = r.chk
        /\ sbucket' = r.sbucket
        /\ UNCHANGED <<now, cacheVars, bucket, log, srvVars, tmps, wr, fx, pending, txt, wrs, get2, mrg>>

\* The task of a request of "ip1" runs _allow.
AllowTask(t) ==
    \E a \in {allow(bucket, "ip1", now)} :
        /\ chk.tasks[t] = "idle"
        /\ bucket' = a.bucket
        /\ chk' = [chk EXCEPT !.tasks[t] = IF a.ok THEN "admitted" ELSE "rejected"]
        /\ UNCHANGED <<now, cacheVars, sbucket, log, srvVars, tmps, wr, fx, pending, txt, wrs, get2, mrg>>

\* A bucket that holds k whole tokens; -1 is for an identity not seen yet.
BucketWith(k) ==
    IF k < 0 THEN NoBucket ELSE [has |-> TRUE, tokens |-> k * Token, ts |-> 0]

InitLock ==
    /\ now = 0
    /\ dir = "absent"
    /\ files = [u \in Urls |-> NoFile]
    /\ ret = NoCall
    /\ \E k \in -1 .. StartTokens, m \in -1 .. StartTokens :
          /\ bucket = [ip \in Ips |-> IF ip = "ip1" THEN BucketWith(k) ELSE NoBucket]
          /\ sbucket = [ip \in Ips |-> IF ip = "ip1" THEN BucketWith(m) ELSE NoBucket]
          /\ chk = [NoChecks EXCEPT !.had = [lenient |-> IF k < 0 THEN BURST ELSE k,
                                             strict  |-> IF m < 0 THEN STRICT_BURST ELSE m]]
    /\ log = <<>>
    /\ inflight = Idle
    /\ last = NoEvent
    /\ fresh = [u \in Urls |-> -1]
    /\ stored = [u \in Urls |-> -1]
    /\ tmps = [u \in Urls |-> NoFile]
    /\ wr = NoWriter
    /\ fx = NoFetch
    /\ pending = [r \in ProjRoutes |-> Idle]
    /\ txt = NoText
    /\ wrs = NoWriters
    /\ get2 = NoSecond
    /\ mrg = NoMerge

NextLock ==
    \/ \E t \in Threads : StrictStep(t)
    \/ \E t \in Threads : AllowTask(t)

SpecLock == InitLock /\ [][NextLock]_vars

\* The threads that have returned from check_rate_limit, and those of them
\* that were admitted; the tasks that have run _allow, and those admitted.
Returned26 == {t \in Threads : chk.th[t].pc = "done"}
Admitted26 == {t \in Returned26 : chk.th[t].ok}
Ran26 == {t \in Threads : chk.tasks[t] # "idle"}
Passed26 == {t \in Threads : chk.tasks[t] = "admitted"}

\* C26: with T whole tokens in the bucket and no time passing, of N
\* concurrent checks of the identity that have returned exactly min(N, T)
\* were admitted, and each admitted one took one token from the bucket: no
\* update is lost.  So it is for check_rate_limit, whenever no thread is
\* inside the locked section, and for _allow.
C26_NoLostUpdate ==
    /\ chk.lock = "free" =>
           /\ Cardinality(Admitted26) = Min(Cardinality(Returned26), chk.had.strict)
           /\ sbucket["ip1"].has =>
                  sbucket["ip1"].tokens =
                      (chk.had.strict - Cardinality(Admitted26)) * Token
    /\ Cardinality(Passed26) = Min(Cardinality(Ran26), chk.had.lenient)
    /\ bucket["ip1"].has =>
           bucket["ip1"].tokens = (chk.had.lenient - Cardinality(Passed26)) * Token

\* C26's case: three threads have called check_rate_limit and three tasks
\* _allow on buckets of two tokens: two of each were admitted, one rejected.
C26_Witness ==
    /\ chk.had.strict = 2 /\ chk.had.lenient = 2
    /\ Returned26 = Threads /\ Cardinality(Admitted26) = 2
    /\ Ran26 = Threads /\ Cardinality(Passed26) = 2
    /\ sbucket["ip1"].tokens = 0 /\ bucket["ip1"].tokens = 0

(***************************************************************************)
(* Requests for one URL that run at once (main.py:298-324): each is        *)
(* suspended at `await core_parse` and resumed when its fetch is done; the *)
(* rest of the handler, cache_set included, has no await.  The requests    *)
(* are ones that ratelimit_mw has admitted, and `log` keeps the answers in *)
(* the order they were given.                                              *)
(***************************************************************************)
\* Requests made for the URL.
Racers == 2

\* What two fetches of one URL may give: the page, and the page as it is
\* after a change.
RacePages ==
    { Page("ok", TRUE, MIN_WORDS, <<"T">>), Page("ok", TRUE, MIN_WORDS + 1, <<"T", DQ>>) }

Answer(status) == [at |-> now, ok |-> status = 200, status |-> status, errstatus |-> 0]

\* main.py:298-314  a POST /v1/parse for url, up to its response or to its
\* suspension in fetch_html.
Race(url) ==
    \E o \in {parse_start(dir, files, url, NoHeader, now)} :
        /\ Len(log) + Suspended(inflight) < Racers
        /\ dir' = o.dir
        /\ files' = o.files
        /\ inflight' = IF o.kind = "fetch" THEN [inflight EXCEPT ![url] = @ + 1]
                       ELSE inflight
        /\ log' = IF o.kind = "fetch" THEN log ELSE Append(log, Answer(o.status))
        /\ last' = [route |-> "parse", phase |-> "start", url |-> url,
                    inm |-> NoHeader, ip |-> "ip1", status |-> o.status,
                    errstatus |-> o.errstatus, body |-> o.body, etag |-> o.etag,
                    maxage |-> o.maxage, reads |-> o.reads, writes |-> o.writes,
                    fetches |-> 0, words |-> -1]
        /\ UNCHANGED <<now, ret, bucket, sbucket, fresh, stored, stepVars>>

\* main.py:163-213, 314-324  the fetch of a suspended request returns a
\* page, and the handler runs to its response.
RaceFetched(url, page) ==
    \E o \in {parse_finish(dir, files, url, page, now, FALSE)} :
        /\ inflight[url] > 0
        /\ dir' = o.dir
        /\ files' = o.files
        /\ inflight' = [inflight EXCEPT ![url] = @ - 1]
        /\ log' = Append(log, Answer(o.status))
        /\ last' = [route |-> "parse", phase |-> "finish", url |-> url,
                    inm |-> NoHeader, ip |-> "ip1", status |-> o.status,
                    errstatus |-> o.errstatus, body |-> o.body, etag |-> o.etag,
                    maxage |-> o.maxage, reads |-> o.reads, writes |-> o.writes,
                    fetches |-> 1, words |-> page.words]
        /\ fresh' = IF o.status = 200 THEN [fresh EXCEPT ![url] = now] ELSE fresh
        /\ stored' = IF o.status = 200 /\ o.wrote
                     THEN [stored EXCEPT ![url] = now] ELSE stored
        /\ UNCHANGED <<now, ret, bucket, sbucket, stepVars>>

InitRace ==
    /\ Init
    /\ dir # "blocked"
    /\ files = [u \in Urls |-> NoFile]

NextRace ==
    \/ Tick(MaxTime)
    \/ Race("u1")
    \/ \E page \in RacePages : RaceFetched("u1", page)

SpecRace == InitRace /\ [][NextRace]_vars

MaxChars == 4

Alphabet == {"a", SP, COMMA, ".", "[", "1", "]"}

\* The number of characters at the start of s that are in the set cs.
Lead(s, cs) ==
    CHOOSE k \in 0 .. Len(s) :
        /\ \A i \in 1 .. k : s[i] \in cs
        /\ k = Len(s) \/ s[k + 1] \notin cs

From(s, i) == SubSeq(s, i, Len(s))

\* utils.py:148  the length of the match of \s*\[\d+\]\s* at the start of s,
\* 0 if there is none.
cite_match(s) ==
    LET k == Lead(s, {SP})
        d == Lead(From(s, k + 2), {"1"})
    IN  IF k < Len(s) /\ s[k + 1] = "[" /\ d > 0
           /\ k + 2 + d <= Len(s) /\ s[k + 2 + d] = "]"
        THEN k + 2 + d + Lead(From(s, k + 3 + d), {SP})
        ELSE 0

\* utils.py:155  _CITE_RE.sub(" ", s)
RECURSIVE cite_sub(_)
cite_sub(s) ==
    IF s = <<>> THEN <<>>
    ELSE IF cite_match(s) > 0 THEN <<SP>> \o cite_sub(From(s, cite_match(s) + 1))
    ELSE <<s[1]>> \o cite_sub(Tail(s))

\* utils.py:156  s.replace(" " + p, p)
RECURSIVE replace_sp(_, _)
replace_sp(s, p) ==
    IF s = <<>> THEN <<>>
    ELSE IF Len(s) >= 2 /\ s[1] = SP /\ s[2] = p THEN <<p>> \o replace_sp(From(s, 3), p)
    ELSE <<s[1]>> \o replace_sp(Tail(s), p)

\* utils.py:157  _SPACE_RE.sub(" ", s).strip()
RECURSIVE collapse(_)
collapse(s) ==
    IF s = <<>> THEN <<>>
    ELSE IF s[1] = SP THEN <<SP>> \o collapse(From(s, Lead(s, {SP}) + 1))
    ELSE <<s[1]>> \o collapse(Tail(s))

\* utils.py:151-158
clean_citations_and_spaces(s) ==
    IF s = <<>> THEN s
    ELSE strip(collapse(replace_sp(replace_sp(replace_sp(replace_sp(
             cite_sub(s), COMMA), "."), ";"), ":")))

Texts == UNION { [1 .. n -> Alphabet] : n \in 0 .. MaxChars }

InitClean ==
    /\ now = 0
    /\ dir = "absent"
    /\ files = [u \in Urls |-> NoFile]
    /\ ret = NoCall
    /\ bucket = [ip \in Ips |-> NoBucket]
    /\ sbucket = [ip \in Ips |-> NoBucket]
    /\ log = <<>>
    /\ inflight = Idle
    /\ last = NoEvent
    /\ fresh = [u \in Urls |-> -1]
    /\ stored = [u \in Urls |-> -1]
    /\ tmps = [u \in Urls |-> NoFile]
    /\ wr = NoWriter
    /\ fx = NoFetch
    /\ pending = [r \in ProjRoutes |-> Idle]
    /\ chk = NoChecks
    /\ wrs = NoWriters
    /\ get2 = NoSecond
    /\ mrg = NoMerge
    /\ \E s \in Texts : txt = [pc |-> "given", s |-> s, was |-> s]

\* The cleaning step is applied to the text, up to twice.
Clean ==
    /\ txt.pc \in {"given", "once"}
    /\ txt' = [pc |-> IF txt.pc = "given" THEN "once" ELSE "twice",
               s |-> clean_citations_and_spaces(txt.s), was |-> txt.s]
    /\ UNCHANGED <<now, cacheVars, rateVars, srvVars, tmps, wr, fx, pending, chk, wrs, get2, mrg>>

NextClean == Clean

SpecClean == InitClean /\ [][NextClean]_vars

\* C28 (as claimed): cleaning a cleaned text changes nothing.
C28_CleanIdempotent == txt.pc = "twice" => txt.s = txt.was

(***************************************************************************)
(* Cache entries and parser versions (cache.py:16-27, main.py:142-144).    *)
(***************************************************************************)
\* The cache fs holds, under some key, an entry that was written for url
\* under the parser version v.
Holds(fs, url, v) ==
    \E k \in DOMAIN fs :
        /\ fs[k].kind = "json"
        /\ "etag" \in fs[k].keys
        /\ fs[k].etag = json_dumps_str(etag_of(url, v))

\* C29 (as claimed): the entries of a URL under two parser versions have
\* keys of their own and coexist, so an entry written under an earlier
\* parser version is still in the cache after any step of the server, the
\* write of the current version's entry for the same URL included.
C29_VersionsCoexist ==
    [][ \A url \in Urls :
            Holds(files, url, "v0") => Holds(files', url, "v0") ]_vars

(***************************************************************************)
(* The refill of the middleware's bucket across rejected checks            *)
(* (main.py:120-130).                                                      *)
(***************************************************************************)
\* The step is a check of identity ip's bucket: the bucket was rewritten
\* with another value, or the answer to "ip1" was logged.
Checked(ip) == bucket'[ip] # bucket[ip] \/ (ip = "ip1" /\ log' # log)

\* The answers to "ip1" from the i-th to the j-th: an admission, then
\* rejections only, then one check.
Drought(i, j) ==
    /\ i < j /\ log[i].ok
    /\ \A k \in (i + 1) .. (j - 1) : ~log[k].ok

\* C30: a check on a bucket holding (tokens, ts) at time now refills it to
\* min(capacity, tokens + rate * (now - ts)); with at least one token it
\* stores one token less and admits, otherwise it stores the refilled amount
\* and rejects.  Hence a request that comes at least 60 / R seconds (Sub
\* ticks) after the last admission - the bucket having been emptied by it at
\* worst - is admitted, however many checks were rejected in between.
C30_RefillSurvivesRejection ==
    [][ /\ \A ip \in Ips :
               (Checked(ip) /\ bucket[ip].has) =>
                   LET tokens == Min(BURST * Token,
                                     bucket[ip].tokens
                                       + RATE_LIMIT_PER_MIN * (now - bucket[ip].ts))
                   IN  /\ bucket'[ip].has /\ bucket'[ip].ts = now
                       /\ bucket'[ip].tokens =
                              IF tokens >= Token THEN tokens - Token ELSE tokens
                       /\ ip = "ip1" => (log'[Len(log')].ok <=> tokens >= Token)
        /\ \A i \in 1 .. Len(log'), j \in 1 .. Len(log') :
               (Drought(i, j)' /\ log'[j].at >= log'[i].at + Sub) => log'[j].ok
      ]_vars

\* C30's case: a fresh identity emptied its bucket with BURST requests at one
\* instant, was rejected at that instant and again half a refill period
\* later, and was admitted at the end of the refill period, which emptied the
\* bucket again.
C30_Witness ==
    /\ Len(log) = BURST + 3
    /\ \A i \in 1 .. BURST : log[i].ok /\ log[i].at = log[1].at
    /\ ~log[BURST + 1].ok /\ log[BURST + 1].at = log[1].at
    /\ ~log[BURST + 2].ok /\ log[BURST + 2].at > log[1].at
    /\ log[BURST + 2].at < log[1].at + Sub
    /\ log[BURST + 3].ok /\ log[BURST + 3].at = log[1].at + Sub
    /\ bucket["ip1"].tokens = 0

(***************************************************************************)
(* Two calls of cache.set for one URL running at once (threads or worker   *)
(* processes), statement by statement.  Both name their temporary file     *)
(* fp + ".tmp" (cache.py:55), so both open the same path; an open file     *)
(* handle stays with its file when the file is renamed or its name is      *)
(* taken over.  A writer's `at` tells where the file of its handle is:     *)
(* under the temporary name, under the entry's name, or under no name.     *)
(***************************************************************************)
Writers == {"w1", "w2"}

IdleWriter == [pc |-> "idle", blob |-> NoFile, at |-> "none", raised |-> FALSE]

\* The length of the text of a file, as far as it depends on the call that
\* wrote it.
text_size(f) ==
    IF f.kind # "json" THEN 0
    ELSE Len(f.etag) + Len(f.payload.url) + Len(f.payload.title)
           + Len(f.payload.text) + Len(f.payload.summary)

\* A file whose text is the head of one blob followed by the tail of
\* another: json.load rejects it.
Mixed == [NoFile EXCEPT !.kind = "mixed"]

\* cache.py:56-57  the text of blob b written from offset 0 into a file that
\* holds f: what was there beyond the end of b stays.
write_over(f, b) == IF text_size(b) >= text_size(f) THEN b ELSE Mixed

\* cache.py:55-58  the next statement of writer x: open(tmp, "w") creates
\* the temporary file or empties the one that is there; json.dump and close
\* write the blob through the handle; os.replace(tmp, fp) renames the
\* temporary file into place, or raises FileNotFoundError when there is none.
writers_step(ws, fs, ts, key, x) ==
    LET me == ws.w[x]
    IN  CASE me.pc = "open" ->
                 [wrs   |-> [ws EXCEPT !.w[x].pc = "dump", !.w[x].at = "tmp"],
                  files |-> fs,
                  tmps  |-> [ts EXCEPT ![key] = Partial]]
          [] me.pc = "dump" ->
                 [wrs   |-> [ws EXCEPT !.w[x].pc = "replace"],
                  files |-> IF me.at = "entry"
                            THEN [fs EXCEPT ![key] = write_over(@, me.blob)] ELSE fs,
                  tmps  |-> IF me.at = "tmp"
                            THEN [ts EXCEPT ![key] = write_over(@, me.blob)] ELSE ts]
          [] me.pc = "replace" /\ ts[key].kind = "none" ->
                 [wrs   |-> [ws EXCEPT !.w[x].pc = "done", !.w[x].raised = TRUE],
                  files |-> fs,
                  tmps  |-> ts]
          [] OTHER ->
                 [wrs   |-> [ws EXCEPT
                               !.w = [y \in Writers |->
                                        [ws.w[y] EXCEPT
                                           !.pc = IF y = x THEN "done" ELSE @,
                                           !.at = IF @ = "tmp" THEN "entry"
                                                  ELSE IF @ = "entry" THEN "gone"
                                                  ELSE @]]],
                  files |-> [fs EXCEPT ![key] = ts[key]],
                  tmps  |-> [ts EXCEPT ![key] = NoFile]]

\* cache.py:46-54  writer x calls set(): the directory is there, the blob is
\* built.
WriterCall(x, url, etag, payload, ttl) ==
    /\ wrs.w[x].pc = "idle"
    /\ wrs' = [wrs EXCEPT !.w[x].pc = "open",
                          !.w[x].blob = blob(etag, payload, ttl, now)]
    /\ UNCHANGED <<now, cacheVars, rateVars, srvVars, tmps, wr, fx, pending, chk, txt,
                   get2, mrg>>

\* cache.py:55-58  writer x executes its next statement.
WriterStep(x, url) ==
    /\ wrs.w[x].pc \in {"open", "dump", "replace"}
    /\ \E r \in {writers_step(wrs, files, tmps, hash_key(url), x)} :
           /\ wrs' = r.wrs
           /\ files' = r.files
           /\ tmps' = r.tmps
    /\ UNCHANGED <<now, dir, ret, rateVars, srvVars, wr, fx, pending, chk, txt, get2, mrg>>

\* The cache directory is there; the entry of "u1" is absent or complete;
\* no temporary file is left over.
InitWriters ==
    /\ now = 0
    /\ dir = "present"
    /\ files \in [Urls -> {NoFile, FullFile(etag_for("u1"), MaxTtl)}]
    /\ files["u2"] = NoFile
    /\ ret = NoCall
    /\ bucket = [ip \in Ips |-> NoBucket]
    /\ sbucket = [ip \in Ips |-> NoBucket]
    /\ log = <<>>
    /\ inflight = Idle
    /\ last = NoEvent
    /\ fresh = [u \in Urls |-> -1]
    /\ stored = [u \in Urls |-> -1]
    /\ tmps = [u \in Urls |-> NoFile]
    /\ wr = NoWriter
    /\ fx = NoFetch
    /\ pending = [r \in ProjRoutes |-> Idle]
    /\ chk = NoChecks
    /\ txt = NoText
    /\ wrs = [pc |-> "run", old |-> files["u1"], w |-> [x \in Writers |-> IdleWriter]]
    /\ get2 = NoSecond
    /\ mrg = NoMerge

NextWriters ==
    \/ Tick(MaxTime)
    \/ \E x \in Writers, put \in SomePuts, ttl \in {0, MaxTtl} :
           WriterCall(x, "u1", put[1], put[2], ttl)
    \/ \E x \in Writers : WriterStep(x, "u1")
    \/ \E url \in {"u1"} : Get(url)

SpecWriters == InitWriters /\ [][NextWriters]_vars

\* C31 (as claimed): two calls of set for one URL, interleaved statement by
\* statement, both end without raising, and the entry file is at every
\* moment what it was before the calls or the complete blob of one of them.
C31_WritersNeedNoLock ==
    wrs.pc = "run" =>
        /\ \A x \in Writers : ~wrs.w[x].raised
        /\ files[hash_key("u1")]
             \in {wrs.old} \cup { wrs.w[x].blob : x \in { y \in Writers : wrs.w[y].pc # "idle" } }

(***************************************************************************)
(* The printable view of a sparse Wikipedia page (extractor.py:139-154),   *)
(* inside the loop of fetch_html.  The first response is described by      *)
(* whether its status is 200 (raise_for_status also passes other           *)
(* statuses below 400), whether its URL contains "wikipedia.org", how      *)
(* often "<p" occurs in its text, and whether its query already has a      *)
(* printable parameter.  The second GET gives a response of status 200     *)
(* ("ok"), a response of another status ("non200": no raise_for_status is  *)
(* called on it), or raises.                                               *)
(***************************************************************************)
\* extractor.py:142  html.count("<p") < 5
SPARSE == 5

ParaSamples == {SPARSE - 1, SPARSE}

Firsts ==
    [status200 : BOOLEAN, wiki : BOOLEAN, paras : ParaSamples, printable : BOOLEAN]

SecondOutcomes == {"ok", "non200", "timeout", "transport", "other"}

Seconds == [outcome : SecondOutcomes, paras : ParaSamples]

\* extractor.py:139-145  the printable view is asked for.
asks_printable(first) ==
    first.status200 /\ first.wiki /\ first.paras < SPARSE /\ ~first.printable

\* A second GET whose exception is not caught where it is raised.
printable_view_uncaught(first, second) ==
    IF ~asks_printable(first) THEN [outcome |-> "ok", extra |-> 0, from |-> "first"]
    ELSE IF second.outcome \in {"timeout", "transport", "other"}
    THEN [outcome |-> second.outcome, extra |-> 1, from |-> "first"]
    ELSE IF second.outcome = "ok" /\ second.paras > first.paras
    THEN [outcome |-> "ok", extra |-> 1, from |-> "second"]
    ELSE [outcome |-> "ok", extra |-> 1, from |-> "first"]

\* extractor.py:139-156  what becomes of a first GET that succeeded: how the
\* attempt ends, how many GETs of the printable view were made, and whose
\* text and headers are returned.
printable_view(first, second) ==
    IF ~asks_printable(first) THEN [outcome |-> "ok", extra |-> 0, from |-> "first"]
    ELSE IF second.outcome = "ok" /\ second.paras > first.paras
    THEN [outcome |-> "ok", extra |-> 1, from |-> "second"]
    ELSE [outcome |-> "ok", extra |-> 1, from |-> "first"]

\* When no second GET is made, nothing is known of it.
Unasked == [outcome |-> "ok", paras |-> SPARSE]

\* extractor.py:129-163  one step of the loop, the GET of the printable view
\* included.
WikiStep(outcome, html) ==
    /\ fx.pc \in {"get", "sleep"}
    /\ IF fx.pc = "sleep" \/ outcome # "ok"
       THEN /\ fx' = fetch_step(fx, outcome, FALSE, html)
            /\ get2' = get2
       ELSE \E first \in Firsts :
            \E second \in IF asks_printable(first) THEN Seconds ELSE {Unasked} :
            \E v \in {printable_view(first, second)} :
                /\ fx' = fetch_step(fx, v.outcome, v.extra > 0, html)
                /\ get2' = [pc |-> IF v.extra > 0 THEN "asked" ELSE "skipped",
                            first |-> first, second |-> second, from |-> v.from,
                            attempt |-> fx.attempt]
    /\ UNCHANGED <<now, cacheVars, rateVars, srvVars, tmps, wr, pending, chk, txt, wrs, mrg>>

InitWiki ==
    /\ Init
    /\ dir = "present"
    /\ files = [u \in Urls |-> NoFile]

\* The clock is left out: nothing in the loop reads it.
NextWiki ==
    \/ \E url \in Urls : FetchBegin(url)
    \/ \E outcome \in GetOutcomes, html \in BOOLEAN : WikiStep(outcome, html)
    \/ \E words \in WordSamples, fault \in BOOLEAN : FetchEnd(words, fault)

SpecWiki == InitWiki /\ [][NextWiki]_vars

\* C32: after a first GET that succeeded, the printable view is fetched at
\* most once, and only for a Wikipedia page with fewer than 5 paragraph
\* tags; its response is returned only if it has status 200 and strictly
\* more paragraph tags than the first; and if the second GET fails, the call
\* ends at once returning the first response: no error is noted, no sleep
\* and no further attempt follow.
C32_PrintableView ==
    [][ get2' # get2 =>
          /\ fx'.extra <= 1
          /\ fx'.extra = 1 <=> get2'.pc = "asked"
          /\ get2'.pc = "asked" =>
                 (get2'.first.wiki /\ get2'.first.paras < SPARSE)
          /\ get2'.from = "second" =>
                 /\ get2'.pc = "asked"
                 /\ get2'.second.outcome = "ok"
                 /\ get2'.second.paras > get2'.first.paras
          /\ (get2'.pc = "asked" /\ get2'.second.outcome # "ok") =>
                 get2'.from = "first"
          /\ fx'.pc = "done" /\ fx'.result = "ok"
          /\ fx'.gets = fx.gets + 1
          /\ fx'.errors = fx.errors /\ fx'.sleeps = fx.sleeps
          /\ fx'.attempt = fx.attempt ]_vars

\* C32's case: the first two GETs of the page timed out, the third gave a
\* sparse Wikipedia page, the GET of its printable view timed out, and the
\* request was answered 200 from the first response.
C32_Witness ==
    /\ get2.pc = "asked" /\ get2.second.outcome = "timeout" /\ get2.from = "first"
    /\ get2.attempt = ATTEMPTS - 1
    /\ fx.pc = "answered" /\ fx.result = "ok" /\ fx.extra = 1
    /\ fx.errors = <<"timeout", "timeout">> /\ fx.sleeps = <<1, 2>>
    /\ last.phase = "finish" /\ last.status = 200

(***************************************************************************)
(* The life of a cached record (main.py:308-324, cache.py:46-58), in the   *)
(* server: Spec.                                                           *)
(***************************************************************************)
\* The entry a request for url that has fetched at `now` and answered with
\* last'.body writes.
Written(url) == blob(etag_for(url), last'.body, CACHE_TTL_SECONDS, now)

\* The step answers a request for url with 200 after a fetch.
Refetched(url) ==
    FinishStep /\ last'.phase = "finish" /\ last'.url = url /\ last'.status = 200

\* C33 (as claimed): every refetch of a URL that has an entry replaces the
\* entire entry with the record it answers with.
C33_AsClaimed ==
    [][ \A url \in Urls :
            (Refetched(url) /\ files[hash_key(url)].kind = "json") =>
                files'[hash_key(url)] = Written(url) ]_vars

\* C33 (amended): the entry of a URL changes only in a step that answers 200
\* after a fetch, and then all of it is replaced: by the tag, the time, the
\* ttl and the body of that answer; when the write of a refetch fails, the
\* entry stays whole as it was.  A 200 served from the cache carries exactly
\* the payload of the entry, which is the body of the answer that wrote it,
\* and leaves the entry as it is.
C33_WholeRecord ==
    [][ \A url \in Urls :
            LET k == hash_key(url)
            IN  /\ files'[k] # files[k] =>
                       /\ Refetched(url)
                       /\ files'[k] = Written(url)
                       /\ PayloadOfText(files'[k].payload) = last'.body
                /\ Refetched(url) => files'[k] \in {files[k], Written(url)}
                /\ (RequestStep /\ last'.phase = "start" /\ last'.url = url
                      /\ last'.status = 200) =>
                       /\ files[k].kind = "json"
                       /\ last'.body = PayloadOfText(files[k].payload)
                       /\ files'[k] = files[k] ]_vars

\* C33's case: a record of "u1" was fetched and written, and expired; a
\* request then fetched the page again and was answered 200 with a new
\* record, the write of which failed: the entry is still the whole earlier
\* one.
C33_Witness ==
    /\ last.phase = "finish" /\ last.status = 200 /\ last.url = "u1"
    /\ fresh["u1"] = now /\ stored["u1"] >= 0
    /\ now - stored["u1"] > CACHE_TTL_SECONDS
    /\ last.body.fetched_at = now
    /\ files[hash_key("u1")] =
           blob(etag_for("u1"), [last.body EXCEPT !.fetched_at = stored["u1"]],
                CACHE_TTL_SECONDS, stored["u1"])

\* C34: no step of the server removes an entry file; a request's arrival,
\* which reads the cache with cache.get, leaves every entry file as it is,
\* an expired one too; and an entry file changes only when a request for its
\* own URL has fetched and calls set, which puts the new entry in its place
\* (_enforce_cache_budget, called before it, evicts nothing).
C34_NoDeletion ==
    [][ /\ RequestStep => files' = files
        /\ \A url \in Urls :
               LET k == hash_key(url)
               IN  /\ files[k].kind # "none" => files'[k].kind # "none"
                   /\ files'[k] # files[k] =>
                          /\ FinishStep /\ last'.url = url /\ last'.writes = 1
                          /\ files'[k] = Written(url) ]_vars

\* C34's case: an entry of the current tag has expired, a request for its
\* URL has read it, missed and gone on to the fetch, and the entry file is
\* still there.
C34_Witness ==
    /\ last.phase = "start" /\ last.status = 0 /\ last.reads >= 1
    /\ inflight[last.url] > 0
    /\ files[hash_key(last.url)].kind = "json"
    /\ json_loads_str(files[hash_key(last.url)].etag) = etag_for(last.url)
    /\ expired(files[hash_key(last.url)].ttl, files[hash_key(last.url)].fetched_at, now)

(***************************************************************************)
(* The application as a whole (main.py:133-138, 298-378, 438-465): a       *)
(* request passes the middlewares from the one added last to the one added *)
(* first (Starlette puts each added middleware in front of the others), so *)
(* BodySizeLimit (added at line 452) runs before ratelimit_mw (added at    *)
(* line 133), and the route runs last.  A request is for /v1/parse, for a  *)
(* projection route, or a POST /v1/parse with a body that fails            *)
(* validation; `big` tells that its Content-Length is above the limit.     *)
(***************************************************************************)
AllRoutes == {"parse", "invalid"} \cup ProjRoutes

\* main.py:446  the answer of BodySizeLimit to a request that is too large
PayloadTooLarge == [status |-> 413, type |-> "payload_too_large", errstatus |-> 413]

\* main.py:298-378  the route that takes the request, up to its response or
\* to the fetch.
handler(route, d, fs, url, inm, t) ==
    CASE route = "parse"   -> parse_start(d, fs, url, inm, t)
      [] route = "invalid" -> invalid_body(d, fs)
      [] OTHER             -> proj_start(route, d, fs, url, inm, t)

\* main.py:443-447, 133-138  BodySizeLimit, then ratelimit_mw, then the
\* route: the calls of _allow made, the bucket table and the outcome.
app_stack(big, b, ip, route, d, fs, url, inm, t) ==
    IF big
    THEN [checks |-> 0, bucket |-> b,
          out |-> Outcome("resp", PayloadTooLarge.status, PayloadTooLarge.errstatus,
                          NoPayload, NoHeader, -1, d, fs, 0, 0, FALSE)]
    ELSE LET a == allow(b, ip, t)
         IN  [checks |-> 1, bucket |-> a.bucket,
              out |-> ratelimit_mw(a.ok, handler(route, d, fs, url, inm, t), d, fs)]

\* A request arrives and runs up to its response or to its suspension in
\* fetch_html.
Incoming(route, url, inm, ip, big) ==
    \E s \in {app_stack(big, bucket, ip, route, dir, files, url, inm, now)} :
        /\ bucket' = s.bucket
        /\ dir' = s.out.dir
        /\ files' = s.out.files
        /\ s.out.kind = "fetch" => AllSuspended < MaxInflight
        /\ inflight' = IF s.out.kind = "fetch" /\ route = "parse"
                       THEN [inflight EXCEPT ![url] = @ + 1] ELSE inflight
        /\ pending' = IF s.out.kind = "fetch" /\ route # "parse"
                      THEN [pending EXCEPT ![route][url] = @ + 1] ELSE pending
        /\ last' = [route |-> route, phase |-> "start", url |-> url, inm |-> inm,
                    ip |-> ip, status |-> s.out.status, errstatus |-> s.out.errstatus,
                    body |-> s.out.body, etag |-> s.out.etag, maxage |-> s.out.maxage,
                    reads |-> s.out.reads, writes |-> s.out.writes, fetches |-> 0,
                    words |-> -1, checks |-> s.checks, big |-> big]
        /\ UNCHANGED <<now, ret, sbucket, log, fresh, stored, tmps, wr, fx, chk, txt,
                       wrs, get2, mrg>>

\* The If-None-Match headers sent to a route.
AllHeaders(route, url) ==
    IF route \in ProjRoutes THEN ProjHeaders(route, url) ELSE {NoHeader, etag_for(url)}

\* The clock stands still: an entry that a request cannot be answered from
\* is one of another tag or one that is no JSON.
NextAll ==
    \/ \E route \in AllRoutes, ip \in {"ip1"}, big \in BOOLEAN :
       \E inm \in AllHeaders(route, "u1") : Incoming(route, "u1", inm, ip, big)
    \/ \E page \in Pages, fault \in BOOLEAN : Fetched("u1", page, fault)
    \/ \E route \in ProjRoutes, page \in Pages, fault \in BOOLEAN :
           ProjFetched(route, "u1", page, fault)

SpecAll == InitProj /\ [][NextAll]_vars

\* A step that answers a request, on its arrival or after its fetch.
Answered ==
    /\ last' # last \/ bucket' # bucket \/ AllSuspended' # AllSuspended
    /\ now' = now
    /\ last'.status # 0

\* C35: a request to /v1/parse or to a projection route that is answered
\* with another status than 200 leaves every entry file as it was; an entry
\* file changes only in the step that answers 200 after a fetch, and the
\* record it then holds has a text of at least 10 words.
C35_OnlySuccessWrites ==
    [][ /\ (Answered /\ last'.status # 200) => files' = files
        /\ \A url \in Urls :
               LET k == hash_key(url)
               IN  files'[k] # files[k] =>
                       /\ last'.phase = "finish" /\ last'.status = 200
                       /\ last'.url = url
                       /\ files'[k].kind = "json"
                       /\ PayloadOfText(files'[k].payload).word_count >= MIN_WORDS
                       /\ PayloadOfText(files'[k].payload).text
                              = TextOf(PayloadOfText(files'[k].payload).word_count) ]_vars

\* C35's case: a request to a projection route fetched a page whose text has
\* fewer than 10 words and was answered 422, with no entry file for the URL
\* before or after.
C35_Witness ==
    /\ last.route \in ProjRoutes /\ last.phase = "finish"
    /\ last.status = 422 /\ last.words = MIN_WORDS - 1
    /\ files[hash_key(last.url)].kind = "none"

\* C36 (as claimed): every request makes exactly one rate-limit check; it
\* leaves the buckets of all other identities as they were and takes at most
\* one token from its own.
C36_OneCheckEach ==
    [][ (last' # last /\ last'.phase = "start") =>
            /\ last'.checks = 1
            /\ \A ip \in Ips \ {last'.ip} : bucket'[ip] = bucket[ip]
            /\ bucket[last'.ip].has =>
                   bucket'[last'.ip].tokens >= bucket[last'.ip].tokens - Token ]_vars

(***************************************************************************)
(* merge_extraction (extractor.py:237-275) and what it calls.  A page is   *)
(* described by the parts it has - each part's value is written as the     *)
(* part's name - and by the number of words its paragraphs give the        *)
(* body-text fallback.  The primary extractor's result has a title, a      *)
(* date and an image, each possibly None, and a text of some words.        *)
(***************************************************************************)
None == "None"

HtmlParts == {"<title>", "og:title", "og:image", ".infobox img",
              "article:published_time", "<time>"}

\* extractor.py:252  len(txt.split()) < 20
FALLBACK_WORDS == 20

\* extractor.py:14-34  (the twitter:title tag and the first heading are not
\* among the parts)
extract_title_bs4(html) ==
    IF "<title>" \in html.has THEN "<title>"
    ELSE IF "og:title" \in html.has THEN "og:title"
    ELSE None

\* extractor.py:37-55  (other images are not among the parts)
extract_lead_image_bs4(html) ==
    IF ".infobox img" \in html.has THEN ".infobox img"
    ELSE IF "og:image" \in html.has THEN "og:image"
    ELSE None

\* extractor.py:191-199
fallback_body_text_bs4(html) == html.p_words

\* extractor.py:201-234  the dict of the meta tags found, under the names of
\* their properties, and of the time element, under "time".
extract_meta_bs4(html) ==
    [k \in (html.has \cap {"og:title", "og:image", "article:published_time"})
             \cup (IF "<time>" \in html.has THEN {"time"} ELSE {}) |->
        IF k = "time" THEN "<time>" ELSE k]

\* dict.get(k)
get(d, k) == IF k \in DOMAIN d THEN d[k] ELSE None

\* extractor.py:269-273  datetime.fromisoformat of a date that is there
convert_date(date) == IF date = "bad" THEN None ELSE date

\* A merge that marks the fallback only when the body text was replaced.
merge_extraction_text_only(primary, meta, html) ==
    LET filled == [k \in {"title", "date", "image"} |->
                      IF primary[k] = None /\ get(meta, k) # None
                      THEN meta[k] ELSE primary[k]]
        short  == primary.words < FALLBACK_WORDS
        title  == IF filled["title"] = None THEN extract_title_bs4(html) ELSE filled["title"]
        image  == IF filled["image"] = None THEN extract_lead_image_bs4(html)
                  ELSE filled["image"]
    IN  [result |-> [title |-> title,
                     words |-> IF short THEN fallback_body_text_bs4(html) ELSE primary.words,
                     date  |-> convert_date(filled["date"]),
                     image |-> image],
         used |-> short]

\* extractor.py:237-275  merge_extraction(primary, meta, html, url): the
\* merged result and used_bs4.
merge_extraction(primary, meta, html) ==
    LET filled == [k \in {"title", "date", "image"} |->
                      IF primary[k] = None /\ get(meta, k) # None
                      THEN meta[k] ELSE primary[k]]
        short  == primary.words < FALLBACK_WORDS
        title  == IF filled["title"] = None THEN extract_title_bs4(html) ELSE filled["title"]
        image  == IF filled["image"] = None THEN extract_lead_image_bs4(html)
                  ELSE filled["image"]
    IN  [result |-> [title |-> title,
                     words |-> IF short THEN fallback_body_text_bs4(html) ELSE primary.words,
                     date  |-> convert_date(filled["date"]),
                     image |-> image],
         used |-> \/ short
                  \/ filled["title"] = None /\ title # None
                  \/ filled["image"] = None /\ image # None]

\* main.py:206  meta.parser
parser_of(used_bs4_fallback) ==
    IF used_bs4_fallback THEN "trafilatura|bs4" ELSE "trafilatura"

Primaries ==
    [title : {None, "pt"}, date : {None, "pd", "bad"}, image : {None, "pi"},
     words : {FALLBACK_WORDS - 1, FALLBACK_WORDS}]

Htmls == [has : SUBSET HtmlParts, p_words : {0, FALLBACK_WORDS}]

InitMerge ==
    /\ now = 0
    /\ dir = "absent"
    /\ files = [u \in Urls |-> NoFile]
    /\ ret = NoCall
    /\ bucket = [ip \in Ips |-> NoBucket]
    /\ sbucket = [ip \in Ips |-> NoBucket]
    /\ log = <<>>
    /\ inflight = Idle
    /\ last = NoEvent
    /\ fresh = [u \in Urls |-> -1]
    /\ stored = [u \in Urls |-> -1]
    /\ tmps = [u \in Urls |-> NoFile]
    /\ wr = NoWriter
    /\ fx = NoFetch
    /\ pending = [r \in ProjRoutes |-> Idle]
    /\ chk = NoChecks
    /\ txt = NoText
    /\ wrs = NoWriters
    /\ get2 = NoSecond
    /\ \E primary \in Primaries, html \in Htmls :
           mrg = [pc |-> "given", primary |-> primary, html |-> html]

\* main.py:171-173  extract_meta_bs4 and merge_extraction are called on the
\* page and the primary extractor's result.
Merge ==
    /\ mrg.pc = "given"
    /\ \E meta \in {extract_meta_bs4(mrg.html)} :
       \E r \in {merge_extraction(mrg.primary, meta, mrg.html)} :
           mrg' = [pc |-> "merged", primary |-> mrg.primary, html |-> mrg.html,
                   meta |-> meta, result |-> r.result, used |-> r.used,
                   parser |-> parser_of(r.used)]
    /\ UNCHANGED <<now, cacheVars, rateVars, srvVars, tmps, wr, fx, pending, chk, txt,
                   wrs, get2>>

NextMerge == Merge

SpecMerge == InitMerge /\ [][NextMerge]_vars

\* The merged value of field k is neither the primary extractor's nor the
\* one the merge found in the meta dict: a structural fallback supplied it.
Supplied(k) ==
    /\ mrg.result[k] # None
    /\ mrg.primary[k] = None
    /\ get(mrg.meta, k) = None

\* C37: used_bs4 is true exactly when the body-text fallback ran (the text
\* had fewer than 20 words, and the page's paragraphs took its place) or the
\* title fallback or the lead-image fallback supplied a value; and the
\* record's parser is "trafilatura|bs4" exactly when used_bs4 is true,
\* "trafilatura" otherwise.
C37_UsedFallback ==
    mrg.pc = "merged" =>
        /\ mrg.used <=> \/ mrg.primary.words < FALLBACK_WORDS
                        \/ Supplied("title")
                        \/ Supplied("image")
        /\ mrg.primary.words < FALLBACK_WORDS => mrg.result.words = mrg.html.p_words
        /\ mrg.primary.words >= FALLBACK_WORDS => mrg.result.words = mrg.primary.words
        /\ mrg.parser = (IF mrg.used THEN "trafilatura|bs4" ELSE "trafilatura")

\* C37's case: a primary result with text enough and an image but no title,
\* on a page with a title element: the title fallback supplied the title
\* and nothing else was replaced.
C37_Witness ==
    /\ mrg.pc = "merged" /\ mrg.used /\ mrg.parser = "trafilatura|bs4"
    /\ mrg.primary.words = FALLBACK_WORDS /\ mrg.primary.image = "pi"
    /\ mrg.primary.title = None /\ mrg.result.title = "<title>"
    /\ mrg.result.image = "pi" /\ mrg.result.words = FALLBACK_WORDS

\* What the metadata extractor found for a field: the social title tag, the
\* social image tag, the published_time tag or else the time element.
MetaFound(k) ==
    CASE k = "title" -> get(mrg.meta, "og:title")
      [] k = "image" -> get(mrg.meta, "og:image")
      [] OTHER -> IF get(mrg.meta, "article:published_time") # None
                  THEN get(mrg.meta, "article:published_time")
                  ELSE get(mrg.meta, "time")

\* C38 (as claimed): for title, date and image the merged value is the
\* primary extractor's when it has one (a date that parses), and otherwise
\* what the metadata extractor found for the field, when it found something.
C38_MetaFillsGaps ==
    mrg.pc = "merged" =>
        \A k \in {"title", "date", "image"} :
            /\ mrg.primary[k] \notin {None, "bad"} => mrg.result[k] = mrg.primary[k]
            /\ (mrg.primary[k] = None /\ MetaFound(k) # None) =>
                   mrg.result[k] = MetaFound(k)

====
